------------------------- MODULE LearningLoopPlans --------------------------
(***************************************************************************)
(* What the operators of LearningLoop return, in any state of the right    *)
(* types: plans pick only sentences that are ready for the item,           *)
(* materialization makes only candidates that can be shown, selection      *)
(* chooses one that is there, and the worker is asked only for contexts    *)
(* that are new. And what they do not leave out: a due item has a plan, a  *)
(* materialization that stops short of a batch gets to every plan          *)
(* (MaterializedMeets), a selection that finds nothing has looked at every *)
(* candidate, and every gap is asked for.                                  *)
(***************************************************************************)
EXTENDS LearningLoop, ListLemmas

-----------------------------------------------------------------------------
(* Orders *)

\* Review rows are in a strict order: by date, then mastery, then id (order_key).
LEMMA ReviewOrder ==
  ASSUME LearnerTypeOK, NEW T \in SUBSET Items
  PROVE  Orders(ByReview, T)
<1>1. \A i \in Items : review[i].next \in Nat /\ mastery[i] \in Nat /\ i \in Nat
  BY ItemsAssumption DEF LearnerTypeOK
<1>2. \A i, j \in T : i = j \/ Precedes(i, j) \/ Precedes(j, i)
  BY <1>1 DEF Precedes
<1>3. \A i, j, k \in T : Precedes(i, j) /\ Precedes(j, k) => Precedes(i, k)
  BY <1>1 DEF Precedes
<1>4. \A i, j \in T : <<i, j>> \in ByReview <=> Precedes(i, j)
  BY DEF ByReview
<1> QED BY <1>2, <1>3, <1>4 DEF Orders

\* So are the ids.
LEMMA IdOrder ==
  ASSUME NEW T \in SUBSET Items
  PROVE  Orders(ById, T)
<1>1. \A i \in Items : i \in Nat
  BY ItemsAssumption
<1>2. \A i, j \in T : <<i, j>> \in ById <=> i < j
  BY DEF ById
<1> QED BY <1>1, <1>2 DEF Orders

\* Sets of items are finite.
LEMMA ItemsFinite == \A T \in SUBSET Items : IsFiniteSet(T)
  BY ItemsAssumption, FS_Subset

\* What is planned for a role are items, one after the other.
LEMMA PlannedAreItems ==
  ASSUME LearnerTypeOK, NEW role \in Roles, NEW lang
  PROVE  PlannedItems(role, lang) \in Seq(Items)
<1> DEFINE mine == {i \in Items : LangOf[i] = lang}
<1>1. Sorted({i \in mine : review[i].row}, ByReview) \in Seq(Items)
  <2> DEFINE T == {i \in mine : review[i].row}
  <2>1. T \in SUBSET Items OBVIOUS
  <2> HIDE DEF T
  <2>2. Sorted(T, ByReview) \in Seq(T)
    BY <2>1, ItemsFinite, ReviewOrder, SortedIs
  <2> QED BY <2>1, <2>2 DEF T
<1>2. \A T \in SUBSET Items : Sorted(T, ById) \in Seq(Items)
  <2> TAKE T \in SUBSET Items
  <2>1. Sorted(T, ById) \in Seq(T)
    BY ItemsFinite, IdOrder, SortedIs
  <2> QED BY <2>1
<1>3. Sorted({i \in mine : learn[i].active}, ById) \in Seq(Items)
  BY <1>2
<1>4. Sorted({i \in mine : Unexplored(i)}, ById) \in Seq(Items)
  BY <1>2
<1> QED BY <1>1, <1>3, <1>4 DEF PlannedItems, Roles

-----------------------------------------------------------------------------
(* Picks and plans *)

\* A sentence that can be shown for the item.
Fit(i, s) == /\ s \in Sentences
             /\ sentences[s].status = "validated"
             /\ sentences[s].explained
             /\ i \in sentences[s].items

\* An anchor that was resolved, and may have been quarantined since.
Anchoring(i, s) == /\ s \in Sentences
                   /\ sentences[s].status # "unborn"
                   /\ sentences[s].explained
                   /\ i \in sentences[s].items

\* A new anchor is recorded only in the place of none or a quarantined one.
Replaces(new, old) == new # 0 => old = 0 \/ Quarantined(old)

PickOK(i, anchor, pick) ==
  \/ pick = NoPick
  \/ /\ pick \in [sentence : Sentences, anchor : 0..MaxSentence]
     /\ Fit(i, pick.sentence)
     /\ pick.anchor # 0 => Fit(i, pick.anchor)
     /\ Replaces(pick.anchor, anchor)

\* What is ready for an item can be shown for it.
LEMMA ReadyIsFit ==
  ASSUME NEW i, NEW seen
  PROVE  /\ \A s \in Ready(i, seen) : Fit(i, s)
         /\ Ready(i, seen) \subseteq Ready(i, {})
         /\ Ready(i, seen) \in SUBSET Nat
  BY DEF Ready, Examined, Fit, Sentences

\* Sentences are the numbers from 1, and 0 is none.
LEMMA SentencesAreNumbers ==
  /\ MaxSentence \in Nat /\ 0 \notin Sentences
  /\ Sentences \subseteq 0..MaxSentence /\ Sentences \subseteq Nat
  BY BoundsAssumption DEF Sentences

\* The anchor of an item is kept unless there is none or it is quarantined
\* (_resolve_anchor).
LEMMA AnchorPicked ==
  ASSUME NEW i \in Items, NEW anchor \in 0..MaxSentence
  PROVE  /\ PickOK(i, anchor, ResolvedAnchor(i, anchor))
         /\ anchor # 0 /\ Fit(i, anchor) => ResolvedAnchor(i, anchor) # NoPick
<1> DEFINE ready == Ready(i, {})
<1>1. CASE anchor \in ready
  <2>1. ResolvedAnchor(i, anchor) = [sentence |-> anchor, anchor |-> 0]
    BY <1>1 DEF ResolvedAnchor
  <2>2. Fit(i, anchor) BY <1>1, ReadyIsFit
  <2>3. anchor # 0 /\ anchor \in Sentences BY <2>2, SentencesAreNumbers DEF Fit
  <2> QED BY <2>1, <2>2, <2>3, SentencesAreNumbers DEF PickOK, NoPick, Replaces
<1>2. CASE anchor \notin ready
  <2>1. ~(anchor # 0 /\ Fit(i, anchor))
    BY <1>2 DEF Ready, Examined, Fit
  <2>2. CASE (anchor # 0 /\ ~Quarantined(anchor)) \/ ready = {}
    BY <1>2, <2>1, <2>2 DEF ResolvedAnchor, PickOK
  <2>3. CASE ~((anchor # 0 /\ ~Quarantined(anchor)) \/ ready = {})
    <3>1. Least(ready) \in ready
      <4>1. ready \in SUBSET Nat BY ReadyIsFit
      <4> HIDE DEF ready
      <4> QED BY <2>3, <4>1, LeastExists
    <3>2. Fit(i, Least(ready)) BY <3>1, ReadyIsFit
    <3>3. ResolvedAnchor(i, anchor)
            = [sentence |-> Least(ready), anchor |-> Least(ready)]
      BY <1>2, <2>3 DEF ResolvedAnchor
    <3>4. Least(ready) \in Sentences BY <3>2 DEF Fit
    <3> DEFINE first == Least(ready)
    <3> HIDE DEF first
    <3>5. /\ ResolvedAnchor(i, anchor) = [sentence |-> first, anchor |-> first]
          /\ first \in Sentences /\ Fit(i, first)
      BY <3>2, <3>3, <3>4 DEF first
    <3>6. Replaces(first, anchor)
      BY <2>3 DEF Replaces
    <3>7. PickOK(i, anchor, ResolvedAnchor(i, anchor))
      BY <3>5, <3>6, SentencesAreNumbers DEF PickOK
    <3> QED BY <2>1, <3>7
  <2> QED BY <2>2, <2>3
<1> QED BY <1>1, <1>2

\* The sentence near an original is ready, and there is one while there is an
\* anchor that can be shown.
LEMMA NearPicked ==
  ASSUME NEW i \in Items, NEW anchor \in 0..MaxSentence
  PROVE  LET near == NearSentence(i, ResolvedAnchor(i, anchor))
         IN  /\ PickOK(i, anchor, near)
             /\ anchor # 0 /\ Fit(i, anchor) => near # NoPick
<1> DEFINE resolved == ResolvedAnchor(i, anchor)
           near == {s \in Ready(i, {}) : \/ s = resolved.sentence
                                         \/ sentences[s].parent = resolved.sentence}
<1>1. /\ PickOK(i, anchor, resolved)
      /\ anchor # 0 /\ Fit(i, anchor) => resolved # NoPick
  BY AnchorPicked
<1> HIDE DEF resolved
<1>2. CASE resolved = NoPick
  <2>1. NearSentence(i, resolved) = NoPick BY <1>2 DEF NearSentence
  <2> QED BY <1>1, <1>2, <2>1 DEF PickOK, resolved
<1>3. CASE resolved # NoPick
  <2>1. /\ resolved \in [sentence : Sentences, anchor : 0..MaxSentence]
        /\ Fit(i, resolved.sentence)
        /\ resolved.anchor # 0 => Fit(i, resolved.anchor)
        /\ Replaces(resolved.anchor, anchor)
    BY <1>1, <1>3 DEF PickOK
  <2>2. resolved.sentence \in near
    BY <2>1 DEF Ready, Examined, Fit
  <2>3. near \in SUBSET Nat BY ReadyIsFit
  <2>4. near \subseteq Ready(i, {}) OBVIOUS
  <2>5. NearSentence(i, resolved) = [resolved EXCEPT !.sentence = Least(near)]
    BY <1>3 DEF NearSentence
  <2> HIDE DEF near
  <2>6. Least(near) \in near BY <2>2, <2>3, LeastExists
  <2>7. Fit(i, Least(near)) BY <2>4, <2>6, ReadyIsFit
  <2>8. Least(near) \in Sentences /\ Least(near) # 0
    BY <2>7, SentencesAreNumbers DEF Fit
  <2>9. PickOK(i, anchor, NearSentence(i, resolved))
    BY <2>1, <2>5, <2>7, <2>8 DEF PickOK
  <2>10. NearSentence(i, resolved) # NoPick
    BY <2>1, <2>5, <2>8 DEF NoPick
  <2> QED BY <2>9, <2>10 DEF resolved
<1> QED BY <1>2, <1>3

\* A varied or new sentence is ready for the item and touches no anchor.
LEMMA FarPicked ==
  ASSUME NEW i \in Items, NEW anchor \in 0..MaxSentence, NEW seen, NEW far,
         far \subseteq Ready(i, seen)
  PROVE  PickOK(i, anchor, FarSentence(far))
<1>1. CASE far = {}
  BY <1>1 DEF FarSentence, PickOK
<1>2. CASE far # {}
  <2>1. far \in SUBSET Nat /\ far \subseteq Ready(i, {}) BY ReadyIsFit
  <2>2. Least(far) \in far BY <1>2, <2>1, LeastExists
  <2>3. Fit(i, Least(far)) BY <2>1, <2>2, ReadyIsFit
  <2>4. FarSentence(far) = [sentence |-> Least(far), anchor |-> 0]
    BY <1>2 DEF FarSentence
  <2> QED BY <2>3, <2>4, SentencesAreNumbers DEF PickOK, Fit, Replaces
<1> QED BY <1>1, <1>2

\* What a stage picks for an item is a sentence that can be shown for it; a
\* stage near the original never goes without one while the anchor is fit.
LEMMA StagePicked ==
  ASSUME NEW i \in Items, NEW stage \in Stages, NEW anchor \in 0..MaxSentence
  PROVE  /\ PickOK(i, anchor, StageSentence(i, stage, anchor))
         /\ stage \notin {Varied, NewContext} /\ anchor # 0 /\ Fit(i, anchor)
            => StageSentence(i, stage, anchor) # NoPick
<1>1. CASE stage = Anchor
  <2>1. StageSentence(i, stage, anchor) = ResolvedAnchor(i, anchor)
    BY <1>1 DEF StageSentence, Anchor, NearOriginal, Varied, NewContext
  <2> QED BY <2>1, AnchorPicked
<1>2. CASE stage = NearOriginal
  <2>1. StageSentence(i, stage, anchor) = NearSentence(i, ResolvedAnchor(i, anchor))
    BY <1>2 DEF StageSentence, Anchor, NearOriginal, Varied, NewContext
  <2> QED BY <2>1, NearPicked
<1>3. CASE stage \in {Varied, NewContext}
  <2>1. StageSentence(i, stage, anchor)
          = FarSentence(Ready(i, SeenAt(stage)) \ {anchor})
    BY <1>3 DEF StageSentence, Anchor, NearOriginal, Varied, NewContext
  <2> QED BY <1>3, <2>1, FarPicked
<1>4. stage = Anchor \/ stage = NearOriginal \/ stage \in {Varied, NewContext}
  BY DEF Stages, Anchor, NearOriginal, Varied, NewContext
<1> QED BY <1>1, <1>2, <1>3, <1>4
Gap == [item : Items, stage : Stages, anchor : Sentences]

GapOK(g) == /\ g \in Gap
            /\ g.stage \in {Varied, NewContext}
            /\ g.item \in sentences[g.anchor].items

PlanOK(i, anchor, plan) ==
  /\ plan \in [sentence : 0..MaxSentence, anchor : 0..MaxSentence,
               stage : Stages, reason : Reasons \cup {NoReason},
               explain : SUBSET Sentences, context : SUBSET Gap]
  /\ plan.sentence # 0 => Fit(i, plan.sentence)
  /\ plan.anchor # 0 => Fit(i, plan.anchor)
  /\ Replaces(plan.anchor, anchor)
  /\ \A g \in plan.context : GapOK(g)

\* Planning nothing is in order.
LEMMA NoPlanIsOK ==
  ASSUME NEW i, NEW anchor
  PROVE  PlanOK(i, anchor, NoPlan)
  BY SentencesAreNumbers DEF PlanOK, NoPlan, Replaces, Stages, Anchor, NewContext

\* A plan made from a pick that is in order is in order.
LEMMA PlanFromIsOK ==
  ASSUME NEW i \in Items, NEW anchor \in 0..MaxSentence, NEW seen,
         NEW stage \in Stages, NEW reason \in Reasons \cup {NoReason},
         NEW pick, PickOK(i, anchor, pick)
  PROVE  PlanOK(i, anchor, PlanFrom(i, seen, stage, reason, pick))
<1>1. Examined(i, seen) \subseteq Sentences
  BY DEF Examined
<1>2. /\ pick.sentence \in 0..MaxSentence /\ pick.anchor \in 0..MaxSentence
      /\ pick.sentence # 0 => Fit(i, pick.sentence)
      /\ pick.anchor # 0 => Fit(i, pick.anchor)
      /\ Replaces(pick.anchor, anchor)
  <2>1. CASE pick = NoPick
    BY <2>1, SentencesAreNumbers DEF NoPick, Replaces
  <2>2. CASE pick # NoPick
    BY <2>2, SentencesAreNumbers DEF PickOK
  <2> QED BY <2>1, <2>2
<1> QED BY <1>1, <1>2 DEF PlanOK, PlanFrom

\* A gap is recorded only for a varied or new stage: near the original there is
\* always a sentence while the anchor can be shown.
LEMMA ContextGapIsOK ==
  ASSUME ContentTypeOK, NEW i \in Items, NEW stage \in Stages,
         NEW anchor \in 0..MaxSentence, anchor # 0 => Anchoring(i, anchor),
         StageSentence(i, stage, anchor) = NoPick
  PROVE  /\ ContextGap(i, stage, anchor) \in SUBSET Gap
         /\ \A g \in ContextGap(i, stage, anchor) : GapOK(g)
<1>1. CASE anchor = 0 \/ Quarantined(anchor)
  BY <1>1 DEF ContextGap
<1>2. CASE ~(anchor = 0 \/ Quarantined(anchor))
  <2>1. ContextGap(i, stage, anchor)
          = {[item |-> i, stage |-> stage, anchor |-> anchor]}
    BY <1>2 DEF ContextGap
  <2>2. anchor # 0 /\ Anchoring(i, anchor)
    BY <1>2
  <2>3. Fit(i, anchor)
    BY <1>2, <2>2 DEF Anchoring, Fit, Quarantined, ContentTypeOK
  <2>4. stage \in {Varied, NewContext}
    BY <2>2, <2>3, StagePicked
  <2> QED BY <2>1, <2>3, <2>4 DEF Gap, GapOK, Fit
<1> QED BY <1>1, <1>2

\* A review plan is in order (_review_plans).
LEMMA ReviewPlanIsOK ==
  ASSUME ContentTypeOK, LearnerTypeOK, NEW i \in Items,
         NEW anchor \in 0..MaxSentence, anchor # 0 => Anchoring(i, anchor)
  PROVE  PlanOK(i, anchor, ReviewPlan(i, anchor))
<1> DEFINE stage == learn[i].stage
           reason == ReviewReason(i)
           pick == StageSentence(i, stage, anchor)
           plan == PlanFrom(i, SeenAt(stage), stage, reason, pick)
           gap == IF pick = NoPick THEN ContextGap(i, stage, anchor) ELSE {}
<1>1. CASE Exposures(i) = 0 \/ reason = NoReason
  <2>1. ReviewPlan(i, anchor) = NoPlan
    BY <1>1 DEF ReviewPlan
  <2> QED BY <2>1, NoPlanIsOK
<1>2. CASE ~(Exposures(i) = 0 \/ reason = NoReason)
  <2>1. stage \in Stages
    BY DEF LearnerTypeOK
  <2>2. reason \in Reasons \cup {NoReason}
    BY DEF ReviewReason, Reasons, NoReason
  <2>3. PickOK(i, anchor, pick)
    BY <2>1, StagePicked
  <2>4. ReviewPlan(i, anchor) = [plan EXCEPT !.context = gap]
    BY <1>2 DEF ReviewPlan
  <2> HIDE DEF reason, pick, stage
  <2>5. PlanOK(i, anchor, plan)
    BY <2>1, <2>2, <2>3, PlanFromIsOK
  <2>6. gap \in SUBSET Gap /\ \A g \in gap : GapOK(g)
    BY <2>1, ContextGapIsOK DEF pick
  <2> HIDE DEF plan, gap
  <2> QED BY <2>4, <2>5, <2>6 DEF PlanOK
<1> QED BY <1>1, <1>2

\* What is planned can be shown, and asks only for contexts that are new.
LEMMA PlansAreOK ==
  ASSUME ContentTypeOK, LearnerTypeOK, NEW i \in Items, NEW role \in Roles,
         NEW anchor \in 0..MaxSentence, anchor # 0 => Anchoring(i, anchor)
  PROVE  PlanOK(i, anchor, PlanOf(role, i, anchor))
<1>1. Anchor \in Stages
  BY DEF Stages, Anchor, NewContext
<1>2. CASE role = "review"
  BY <1>2, ReviewPlanIsOK DEF PlanOf
<1>3. CASE role = "new"
  <2>1. PickOK(i, anchor, StageSentence(i, Anchor, anchor))
    BY <1>1, StagePicked
  <2>2. PlanOf(role, i, anchor) = NewPlan(i, anchor)
    BY <1>3 DEF PlanOf
  <2>3. CASE Exposures(i) > 0
    BY <2>2, <2>3, NoPlanIsOK DEF NewPlan
  <2>4. CASE ~(Exposures(i) > 0)
    <3>1. NewPlan(i, anchor) = PlanFrom(i, {}, Anchor, NoReason,
                                        StageSentence(i, Anchor, anchor))
      BY <2>4 DEF NewPlan
    <3> QED BY <1>1, <2>1, <2>2, <3>1, PlanFromIsOK
  <2> QED BY <2>3, <2>4
<1>4. CASE role = "exploration"
  <2> DEFINE ready == Ready(i, Seen)
             pick == IF ready = {} THEN NoPick
                     ELSE [sentence |-> Least(ready), anchor |-> 0]
  <2>1. PlanOf(role, i, anchor) = PlanFrom(i, Seen, Anchor, NoReason, pick)
    BY <1>4 DEF PlanOf, ExplorationPlan
  <2>2. pick = FarSentence(ready)
    BY DEF FarSentence
  <2>3. PickOK(i, anchor, pick)
    BY <2>2, FarPicked
  <2> HIDE DEF pick
  <2> QED BY <1>1, <2>1, <2>3, PlanFromIsOK
<1> QED BY <1>2, <1>3, <1>4 DEF Roles
-----------------------------------------------------------------------------
(* Materialization *)

Acc == [pool : Seq(Candidate), anchor : [Items -> 0..MaxSentence],
        explain : SUBSET Sentences, context : SUBSET Gap, base : Nat,
        full : BOOLEAN]

\* Anchors are resolved ones, and one that was there is replaced only when it
\* was quarantined.
AnchorsOK(anchors) ==
  /\ anchors \in [Items -> 0..MaxSentence]
  /\ \A i \in Items : /\ anchors[i] # 0 => Anchoring(i, anchors[i])
                      /\ \/ anchors[i] = learn[i].anchor
                         \/ learn[i].anchor = 0
                         \/ Quarantined(learn[i].anchor)

AccOK(acc) == /\ acc \in Acc
              /\ Showable(acc.pool)
              /\ AnchorsOK(acc.anchor)
              /\ \A g \in acc.context : GapOK(g)

\* Noting the gaps and the anchor of a plan keeps the pool.
LEMMA NotedIsOK ==
  ASSUME NEW acc, AccOK(acc), NEW i \in Items, NEW plan,
         PlanOK(i, acc.anchor[i], plan)
  PROVE  /\ AccOK(Noted(acc, i, plan))
         /\ Noted(acc, i, plan).pool = acc.pool
<1> DEFINE new == [acc.anchor EXCEPT ![i] = IF plan.anchor # 0 THEN plan.anchor
                                            ELSE @]
           noted == Noted(acc, i, plan)
<1>1. /\ noted.pool = acc.pool /\ noted.anchor = new
      /\ noted.explain = acc.explain \cup plan.explain
      /\ noted.context = acc.context \cup plan.context
      /\ noted \in Acc
  BY DEF AccOK, Acc, Noted, PlanOK
<1>2. AnchorsOK(acc.anchor) /\ PlanOK(i, acc.anchor[i], plan)
  BY DEF AccOK
<1>3. new \in [Items -> 0..MaxSentence]
  BY <1>2 DEF AnchorsOK, PlanOK
<1>4. ASSUME NEW j \in Items
      PROVE  /\ new[j] # 0 => Anchoring(j, new[j])
             /\ \/ new[j] = learn[j].anchor
                \/ learn[j].anchor = 0
                \/ Quarantined(learn[j].anchor)
  <2>1. CASE j = i /\ plan.anchor # 0
    <3>1. new[j] = plan.anchor BY <1>2, <2>1 DEF AnchorsOK
    <3>2. Anchoring(j, plan.anchor)
      BY <1>2, <2>1 DEF PlanOK, Fit, Anchoring
    <3>3. acc.anchor[i] = 0 \/ Quarantined(acc.anchor[i])
      BY <1>2, <2>1 DEF PlanOK, Replaces
    <3>4. \/ acc.anchor[i] = learn[i].anchor
          \/ learn[i].anchor = 0
          \/ Quarantined(learn[i].anchor)
      BY <1>2 DEF AnchorsOK
    <3> QED BY <2>1, <3>1, <3>2, <3>3, <3>4
  <2>2. CASE ~(j = i /\ plan.anchor # 0)
    <3>1. new[j] = acc.anchor[j] BY <1>2, <2>2 DEF AnchorsOK
    <3> QED BY <1>2, <3>1 DEF AnchorsOK
  <2> QED BY <2>1, <2>2
<1>5. AnchorsOK(new)
  <2> HIDE DEF new
  <2> QED BY <1>3, <1>4 DEF AnchorsOK
<1> HIDE DEF new, noted
<1>6. AccOK(noted)
  BY <1>1, <1>2, <1>5 DEF AccOK, PlanOK
<1> QED BY <1>1, <1>6 DEF noted

\* Changing nothing but the pool of a materialization.
LEMMA PoolChanged ==
  ASSUME NEW acc, AccOK(acc), NEW q \in Seq(Candidate), Showable(q)
  PROVE  AccOK([acc EXCEPT !.pool = q])
<1> DEFINE new == [acc EXCEPT !.pool = q]
<1>1. /\ new \in Acc /\ new.pool = q /\ new.anchor = acc.anchor
      /\ new.context = acc.context
  BY DEF AccOK, Acc
<1> HIDE DEF new
<1>2. AccOK(new) BY <1>1 DEF AccOK
<1> QED BY <1>2 DEF new

\* An item joins only candidates whose sentence has it, up to MaxTargets.
LEMMA JoinedIsOK ==
  ASSUME NEW acc, AccOK(acc), NEW i \in Items, NEW own,
         \A k \in own \cap DOMAIN acc.pool : Fit(i, acc.pool[k].sentence)
  PROVE  AccOK(Joined(acc, own, i))
<1> DEFINE q == acc.pool
           Takes(k) == k \in own /\ Cardinality(q[k].targets) < MaxTargets
           r == [k \in DOMAIN q |->
                   IF Takes(k)
                   THEN [q[k] EXCEPT !.targets = q[k].targets \cup {i}]
                   ELSE q[k]]
<1>1. Joined(acc, own, i) = [acc EXCEPT !.pool = r]
  BY DEF Joined, AccOK, Acc
<1>2. q \in Seq(Candidate) /\ Showable(q)
  BY DEF AccOK, Acc
<1> HIDE DEF q
<1>3. ASSUME NEW k \in DOMAIN q
      PROVE  /\ r[k] \in Candidate
             /\ r[k].role = q[k].role /\ r[k].sentence = q[k].sentence
             /\ r[k].stage = q[k].stage
             /\ r[k].targets = IF Takes(k) THEN q[k].targets \cup {i}
                               ELSE q[k].targets
  <2>1. q[k] \in Candidate BY <1>2
  <2>2. CASE Takes(k)
    <3>1. r[k] = [q[k] EXCEPT !.targets = q[k].targets \cup {i}] BY <2>2
    <3> HIDE DEF Takes
    <3> QED BY <2>1, <2>2, <3>1 DEF Candidate
  <2>3. CASE ~Takes(k)
    <3>1. r[k] = q[k] BY <2>3
    <3> HIDE DEF Takes
    <3> QED BY <2>1, <2>3, <3>1
  <2> QED BY <2>2, <2>3
<1>4. DOMAIN r = DOMAIN q OBVIOUS
<1> HIDE DEF r
<1>5. r \in Seq(Candidate)
  <2>1. PICK n \in Nat : DOMAIN q = 1..n
    <3>1. DOMAIN q = 1..Len(q) /\ Len(q) \in Nat BY <1>2
    <3> QED BY <3>1
  <2>2. r \in [1..n -> Candidate]
    BY <1>3, <1>4, <2>1 DEF r
  <2> QED BY <2>2
<1>6. ASSUME NEW k \in DOMAIN q
      PROVE  LET s == sentences[r[k].sentence]
             IN  /\ s.status = "validated" /\ s.explained
                 /\ r[k].targets # {} /\ r[k].targets \subseteq s.items
                 /\ Cardinality(r[k].targets) <= MaxTargets
  <2>1. LET s == sentences[q[k].sentence]
        IN  /\ s.status = "validated" /\ s.explained
            /\ q[k].targets # {} /\ q[k].targets \subseteq s.items
            /\ Cardinality(q[k].targets) <= MaxTargets
    BY <1>2 DEF Showable
  <2>2. CASE Takes(k)
    <3>1. i \in sentences[q[k].sentence].items
      BY <2>2 DEF Fit, q
    <3>2. IsFiniteSet(q[k].targets)
      <4>1. q[k] \in Candidate BY <1>2
      <4>2. q[k].targets \in SUBSET Items BY <4>1 DEF Candidate
      <4> QED BY <4>2, ItemsFinite
    <3>3. /\ Cardinality(q[k].targets \cup {i}) <= Cardinality(q[k].targets) + 1
          /\ Cardinality(q[k].targets) \in Nat
          /\ Cardinality(q[k].targets \cup {i}) \in Nat
      <4> DEFINE T == q[k].targets
      <4> HIDE DEF T
      <4>1. IsFiniteSet(T) BY <3>2 DEF T
      <4>2. Cardinality(T) \in Nat BY <4>1, FS_CardinalityType
      <4>3. Cardinality(T \cup {i})
              = IF i \in T THEN Cardinality(T) ELSE Cardinality(T) + 1
        BY <4>1, FS_AddElement
      <4> QED BY <4>2, <4>3 DEF T
    <3>4. MaxTargets \in Nat BY PolicyAssumption
    <3>5. Cardinality(q[k].targets) < MaxTargets BY <2>2
    <3> QED BY <1>3, <2>1, <2>2, <3>1, <3>3, <3>4, <3>5
  <2>3. CASE ~Takes(k)
    BY <1>3, <2>1, <2>3
  <2> QED BY <2>2, <2>3
<1>7. Showable(r)
  <2>1. \A k, l \in DOMAIN q :
          SameKey(r[l], r[k].role, r[k].sentence, r[k].stage) => k = l
    <3>1. \A k, l \in DOMAIN q :
            SameKey(q[l], q[k].role, q[k].sentence, q[k].stage) => k = l
      BY <1>2 DEF Showable
    <3> QED BY <1>3, <3>1 DEF SameKey
  <2> QED BY <1>4, <1>6, <2>1 DEF Showable
<1> QED BY <1>1, <1>5, <1>7, PoolChanged

\* A candidate for an item its sentence fits, with a key of its own.
LEMMA AppendedIsShowable ==
  ASSUME NEW q \in Seq(Candidate), Showable(q), NEW c \in Candidate,
         NEW i, c.targets = {i}, Fit(i, c.sentence),
         \A k \in DOMAIN q : ~SameKey(q[k], c.role, c.sentence, c.stage)
  PROVE  Append(q, c) \in Seq(Candidate) /\ Showable(Append(q, c))
<1> DEFINE r == Append(q, c)
<1>1. Cardinality({i}) <= MaxTargets
  <2>1. Cardinality({i}) = 1 BY FS_Singleton
  <2>2. MaxTargets \in Nat \ {0} BY PolicyAssumption
  <2> QED BY <2>1, <2>2
<1>2. /\ r \in Seq(Candidate) /\ Len(r) = Len(q) + 1 /\ Len(q) \in Nat
      /\ DOMAIN r = 1..Len(r) /\ DOMAIN q = 1..Len(q)
      /\ r[Len(r)] = c /\ \A k \in DOMAIN q : r[k] = q[k]
  OBVIOUS
<1> HIDE DEF r
<1>3. \A k \in DOMAIN r : k = Len(r) \/ k \in DOMAIN q
  BY <1>2
<1>4. \A k, l \in DOMAIN r :
        SameKey(r[l], r[k].role, r[k].sentence, r[k].stage) => k = l
  BY <1>2, <1>3 DEF Showable, SameKey
<1>5. ASSUME NEW k \in DOMAIN r
      PROVE  LET s == sentences[r[k].sentence]
             IN  /\ s.status = "validated" /\ s.explained
                 /\ r[k].targets # {} /\ r[k].targets \subseteq s.items
                 /\ Cardinality(r[k].targets) <= MaxTargets
  <2>1. CASE k = Len(r)
    BY <1>1, <1>2, <2>1 DEF Fit
  <2>2. CASE k \in DOMAIN q
    BY <1>2, <2>2 DEF Showable
  <2> QED BY <1>3, <2>1, <2>2
<1>6. Showable(r)
  BY <1>4, <1>5 DEF Showable
<1> QED BY <1>2, <1>6 DEF r

\* A new candidate can be shown and has a key of its own.
LEMMA CreatedIsOK ==
  ASSUME NEW acc, AccOK(acc), NEW i \in Items, NEW role \in Roles,
         NEW plan, NEW anchor, PlanOK(i, anchor, plan), plan.sentence # 0,
         \A k \in DOMAIN acc.pool :
            ~SameKey(acc.pool[k], role, plan.sentence, plan.stage)
  PROVE  AccOK(Created(acc, role, i, plan))
<1> DEFINE c == [role |-> role, reason |-> plan.reason, stage |-> plan.stage,
                 sentence |-> plan.sentence, targets |-> {i}]
<1>1. Created(acc, role, i, plan) = [acc EXCEPT !.pool = Append(acc.pool, c)]
  BY DEF Created, AccOK, Acc
<1>2. acc.pool \in Seq(Candidate) /\ Showable(acc.pool)
  BY DEF AccOK, Acc
<1>3. c \in Candidate /\ Fit(i, plan.sentence)
  BY DEF PlanOK, Fit, Candidate
<1>4. /\ c.role = role /\ c.sentence = plan.sentence
      /\ c.stage = plan.stage /\ c.targets = {i}
  OBVIOUS
<1> HIDE DEF c
<1>5. Append(acc.pool, c) \in Seq(Candidate) /\ Showable(Append(acc.pool, c))
  BY <1>2, <1>3, <1>4, AppendedIsShowable
<1> QED BY <1>1, <1>5, PoolChanged

\* One plan more or less leaves what materialization has made in order.
LEMMA PulledIsOK ==
  ASSUME ContentTypeOK, LearnerTypeOK, NEW acc, AccOK(acc), NEW i \in Items,
         NEW role \in Roles
  PROVE  AccOK(Pulled(acc, role, i))
<1> DEFINE plan == PlanOf(role, i, acc.anchor[i])
           noted == Noted(acc, i, plan)
           same == {k \in DOMAIN acc.pool :
                      SameKey(acc.pool[k], role, plan.sentence, plan.stage)}
           own == {k \in same : k > noted.base}
<1>1. CASE acc.full
  BY <1>1 DEF Pulled
<1>2. CASE ~acc.full
  <2>1. PlanOK(i, acc.anchor[i], plan)
    <3>1. AnchorsOK(acc.anchor) BY DEF AccOK
    <3> QED BY <3>1, PlansAreOK DEF AnchorsOK
  <2>2. AccOK(noted) /\ noted.pool = acc.pool
    BY <2>1, NotedIsOK
  <2>3. Pulled(acc, role, i) = Inserted(noted, role, i, plan, same)
    BY <1>2 DEF Pulled, Placed
  <2> HIDE DEF plan, noted
  <2>4. CASE plan.sentence = 0
    BY <2>2, <2>3, <2>4 DEF Inserted
  <2>5. CASE plan.sentence # 0 /\ own # {}
    <3>1. Fit(i, plan.sentence) BY <2>1, <2>5 DEF PlanOK
    <3>2. \A k \in own \cap DOMAIN noted.pool : Fit(i, noted.pool[k].sentence)
      BY <2>2, <3>1 DEF SameKey
    <3>3. Pulled(acc, role, i) = Joined(noted, own, i)
      BY <2>3, <2>5 DEF Inserted
    <3> HIDE DEF own
    <3> QED BY <2>2, <3>2, <3>3, JoinedIsOK
  <2>6. CASE /\ plan.sentence # 0 /\ own = {}
             /\ Len(noted.pool) - noted.base >= BatchSize
    <3>1. Pulled(acc, role, i) = [noted EXCEPT !.full = TRUE]
      BY <2>3, <2>6 DEF Inserted
    <3> QED BY <2>2, <3>1 DEF AccOK, Acc
  <2>7. CASE /\ plan.sentence # 0 /\ own = {} /\ same # {}
             /\ ~(Len(noted.pool) - noted.base >= BatchSize)
    <3>1. Pulled(acc, role, i) = noted
      BY <2>3, <2>7 DEF Inserted
    <3> QED BY <2>2, <3>1
  <2>8. CASE /\ plan.sentence # 0 /\ own = {} /\ same = {}
             /\ ~(Len(noted.pool) - noted.base >= BatchSize)
    <3>1. Pulled(acc, role, i) = Created(noted, role, i, plan)
      BY <2>3, <2>8 DEF Inserted
    <3>2. \A k \in DOMAIN noted.pool :
            ~SameKey(noted.pool[k], role, plan.sentence, plan.stage)
      BY <2>2, <2>8
    <3> QED BY <2>1, <2>2, <2>8, <3>1, <3>2, CreatedIsOK
  <2> QED BY <2>4, <2>5, <2>6, <2>7, <2>8
<1> QED BY <1>1, <1>2

\* A role starts from what the roles before it have made.
LEMMA BegunIsOK ==
  ASSUME NEW acc, AccOK(acc)
  PROVE  AccOK(Begun(acc))
<1>1. acc.pool \in Seq(Candidate) BY DEF AccOK, Acc
<1>2. Len(acc.pool) \in Nat BY <1>1
<1>3. /\ Begun(acc) \in Acc /\ Begun(acc).pool = acc.pool
      /\ Begun(acc).anchor = acc.anchor /\ Begun(acc).context = acc.context
  BY <1>2 DEF Begun, AccOK, Acc
<1> QED BY <1>3 DEF AccOK

\* The fold of a role is a sequence of materializations under way.
LEMMA OfRoleRuns ==
  ASSUME ContentTypeOK, LearnerTypeOK, NEW acc, AccOK(acc), NEW role \in Roles,
         NEW lang
  PROVE  LET items == PlannedItems(role, lang)
         IN  \E f : /\ f[0] = Begun(acc)
                    /\ \A n \in 1..Len(items) :
                         f[n] = Pulled(f[n - 1], role, items[n])
                    /\ OfRole(acc, role, lang) = f[Len(items)]
                    /\ \A n \in 0..Len(items) : AccOK(f[n])
<1> DEFINE items == PlannedItems(role, lang)
           N == Len(items)
           D == {a \in Acc : AccOK(a)}
           More(n, a) == Pulled(a, role, items[n])
           Is(f) == f = [n \in 0..N |-> IF n = 0 THEN Begun(acc)
                                        ELSE More(n, f[n - 1])]
           F == CHOOSE f : Is(f)
           g == [n \in 1..N |-> [a \in D |-> More(n, a)]]
<1>1. items \in Seq(Items)
  BY PlannedAreItems
<1>2. N \in Nat /\ \A n \in 1..N : items[n] \in Items
  BY <1>1
<1>3. Begun(acc) \in D
  BY BegunIsOK DEF AccOK
<1>4. \A n \in 1..N, a \in D : More(n, a) \in D
  <2> TAKE n \in 1..N, a \in D
  <2>1. items[n] \in Items /\ AccOK(a) BY <1>2
  <2>2. AccOK(More(n, a)) BY <2>1, PulledIsOK
  <2> QED BY <2>2 DEF AccOK
<1>5. OfRole(acc, role, lang) = F[N]
  BY DEF OfRole
<1> HIDE DEF N, More
<1>6. g \in [1..N -> [D -> D]]
  <2> HIDE DEF D
  <2> QED BY <1>4
<1>7. \A n \in 1..N, a \in D : g[n][a] = More(n, a)
  OBVIOUS
<1> HIDE DEF g, D
<1>8. PICK f \in [0..N -> D] : Recursive(f, N, Begun(acc), g)
  BY <1>2, <1>3, <1>6, Recursion
<1>9. \A n \in 0..N : n # 0 => n \in 1..N /\ n - 1 \in 0..N
  BY <1>2
<1>10. \A n \in 0..N : f[n] = IF n = 0 THEN Begun(acc) ELSE More(n, f[n - 1])
  <2> TAKE n \in 0..N
  <2>1. CASE n = 0 BY <1>8, <2>1 DEF Recursive
  <2>2. CASE n # 0
    <3>1. f[n - 1] \in D /\ n \in 1..N BY <1>9, <2>2
    <3>2. f[n] = g[n][f[n - 1]] BY <1>8, <2>2 DEF Recursive
    <3> QED BY <1>7, <2>2, <3>1, <3>2
  <2> QED BY <2>1, <2>2
<1>11. Is(f)
  BY <1>10
<1> HIDE DEF Is
<1>12. Is(F)
  BY <1>11
<1> HIDE DEF F
<1>13. /\ F[0] = Begun(acc)
       /\ \A n \in 1..N : F[n] = More(n, F[n - 1])
  <2>1. \A n \in 0..N : F[n] = IF n = 0 THEN Begun(acc) ELSE More(n, F[n - 1])
    BY <1>12 DEF Is
  <2>2. 0 \in 0..N /\ \A n \in 1..N : n \in 0..N /\ n # 0 BY <1>2
  <2> QED BY <2>1, <2>2
<1>14. \A n \in 1..N : F[n - 1] \in D => F[n] \in D
  BY <1>4, <1>13
<1>15. \A n \in 0..N : F[n] \in D
  BY <1>2, <1>3, <1>13, <1>14, RecursionStays
<1>16. \A n \in 0..N : AccOK(F[n])
  BY <1>15 DEF D
<1> QED BY <1>5, <1>13, <1>16 DEF N, More

\* One role after the other, and its items one by one, keep it in order.
LEMMA OfRoleIsOK ==
  ASSUME ContentTypeOK, LearnerTypeOK, NEW acc, AccOK(acc), NEW role \in Roles,
         NEW lang
  PROVE  AccOK(OfRole(acc, role, lang))
<1> DEFINE items == PlannedItems(role, lang)
<1>1. PICK f : /\ OfRole(acc, role, lang) = f[Len(items)]
               /\ \A n \in 0..Len(items) : AccOK(f[n])
  BY OfRoleRuns
<1>2. items \in Seq(Items) /\ Len(items) \in 0..Len(items)
  <2>1. items \in Seq(Items) BY PlannedAreItems
  <2> HIDE DEF items
  <2> QED BY <2>1
<1> QED BY <1>1, <1>2

\* The anchors on record are resolved ones.
AnchorInv ==
  \A i \in Items : learn[i].anchor # 0 => Anchoring(i, learn[i].anchor)

OldAnchors == [i \in Items |-> learn[i].anchor]

\* The anchors before materialization are resolved ones.
LEMMA OldAnchorsAreOK ==
  ASSUME LearnerTypeOK, AnchorInv
  PROVE  AnchorsOK(OldAnchors)
<1>1. \A i \in Items : learn[i].anchor \in 0..MaxSentence
  BY DEF LearnerTypeOK
<1> QED BY <1>1 DEF AnchorsOK, AnchorInv, OldAnchors

\* Materialization leaves a pool that can be shown, anchors that are resolved
\* and gaps that only new contexts can fill.
LEMMA MaterializedIsOK ==
  ASSUME ContentTypeOK, LearnerTypeOK, AnchorInv, pool \in Seq(Candidate),
         PoolIsShowable, NEW lang
  PROVE  AccOK(Materialized(lang))
<1>1. AccOK(Unmade)
  <2>1. Unmade = [pool |-> pool, anchor |-> OldAnchors, explain |-> {},
                  context |-> {}, base |-> 0, full |-> FALSE]
    BY DEF Unmade, OldAnchors
  <2>2. AnchorsOK(OldAnchors) /\ OldAnchors \in [Items -> 0..MaxSentence]
    BY OldAnchorsAreOK DEF AnchorsOK
  <2> QED BY <2>1, <2>2 DEF AccOK, Acc, PoolIsShowable
<1>2. AccOK(OfRole(Unmade, "review", lang))
  BY <1>1, OfRoleIsOK DEF Roles
<1>3. AccOK(OfRole(OfRole(Unmade, "review", lang), "new", lang))
  BY <1>2, OfRoleIsOK DEF Roles
<1> QED BY <1>3, OfRoleIsOK DEF Roles, Materialized

\* shown is finite, and so is every set of presentations.
LEMMA ShownFinite ==
  ASSUME shown \in Seq(Presentation), NEW P \in SUBSET DOMAIN shown
  PROVE  IsFiniteSet(P) /\ Cardinality(P) \in Nat
<1>1. DOMAIN shown = 1..Len(shown) /\ Len(shown) \in Nat
  OBVIOUS
<1>2. IsFiniteSet(DOMAIN shown)
  BY <1>1, FS_Interval
<1> QED BY <1>2, FS_Subset, FS_CardinalityType

\* The categories are ranked: all three of them, the most behind first.
LEMMA RankedAreRoles ==
  ASSUME shown \in Seq(Presentation)
  PROVE  /\ Ranked \in [1..3 -> Roles]
         /\ \A role \in Roles : \E n \in 1..3 : Ranked[n] = role
<1> DEFINE ratios == IF Backlog >= BacklogThreshold THEN BacklogRatios ELSE Ratios
           counts == [r \in Roles |-> Presented(r)]
           total == counts["review"] + counts["new"] + counts["exploration"]
           deficit == [r \in Roles |-> Deficit(ratios[r], counts[r], total)]
           Ahead(r, s) == \/ deficit[r] > deficit[s]
                          \/ deficit[r] = deficit[s] /\ TieOrder[r] < TieOrder[s]
           R == {rs \in Roles \X Roles : Ahead(rs[1], rs[2])}
<1>1. \A r \in Roles : Presented(r) \in Nat
  <2>1. \A r : {p \in InSession : shown[p].role = r} \in SUBSET DOMAIN shown
    BY DEF InSession
  <2> QED BY <2>1, ShownFinite DEF Presented
<1>2. \A r \in Roles : ratios[r] \in Nat
  BY PolicyAssumption
<1>3. \A r \in Roles : counts[r] \in Nat
  BY <1>1
<1>4. total \in Nat
  BY <1>3 DEF Roles
<1> HIDE DEF ratios, counts, total
<1>5. \A r \in Roles : deficit[r] \in Int
  <2> TAKE r \in Roles
  <2>1. deficit[r] = ratios[r] * (total + 1) - 100 * counts[r] BY DEF Deficit
  <2> DEFINE a == ratios[r]
             b == total + 1
             c == counts[r]
  <2>2. a \in Nat /\ b \in Nat /\ c \in Nat BY <1>2, <1>3, <1>4
  <2> HIDE DEF a, b, c
  <2>3. a * b - 100 * c \in Int BY <2>2
  <2> QED BY <2>1, <2>3 DEF a, b, c
<1> HIDE DEF deficit
<1>6. /\ \A r \in Roles : TieOrder[r] \in Nat
      /\ \A r, s \in Roles : TieOrder[r] = TieOrder[s] => r = s
  BY DEF Roles, TieOrder
<1>7. \A r, s \in Roles : <<r, s>> \in R <=> Ahead(r, s)
  OBVIOUS
<1>8. \A r, s \in Roles : r = s \/ Ahead(r, s) \/ Ahead(s, r)
  BY <1>5, <1>6
<1>9. /\ \A r, s, t \in Roles : Ahead(r, s) /\ Ahead(s, t) => Ahead(r, t)
      /\ \A r \in Roles : ~Ahead(r, r)
  BY <1>5, <1>6
<1>10. Ranked = Sorted(Roles, R)
  BY DEF Ranked, RankCategories, ratios, counts, total, deficit
<1> HIDE DEF R, Ahead
<1>11. Orders(R, Roles) /\ \A r \in Roles : <<r, r>> \notin R
  BY <1>7, <1>8, <1>9 DEF Orders
<1>12. IsFiniteSet(Roles) /\ Cardinality(Roles) = 3
  <2> DEFINE One == {"review"}
             Two == One \cup {"new"}
  <2>1. "new" \notin One /\ "exploration" \notin Two OBVIOUS
  <2>2. IsFiniteSet(One) /\ Cardinality(One) = 1
    BY FS_Singleton
  <2>3. Roles = Two \cup {"exploration"}
    BY DEF Roles
  <2> HIDE DEF One
  <2>4. IsFiniteSet(Two) /\ Cardinality(Two) = 2
    <3>1. /\ IsFiniteSet(Two)
          /\ Cardinality(Two) = IF "new" \in One THEN Cardinality(One)
                                ELSE Cardinality(One) + 1
      BY <2>2, FS_AddElement
    <3> QED BY <2>1, <2>2, <3>1
  <2> HIDE DEF Two
  <2> QED BY <2>1, <2>3, <2>4, FS_AddElement
<1>13. Sorted(Roles, R) \in [1..3 -> Roles]
  BY <1>11, <1>12, SortedIs
<1>14. \A role \in Roles : \E n \in DOMAIN Ranked : Ranked[n] = role
  BY <1>10, <1>11, <1>12, SortedCovers
<1> QED BY <1>10, <1>13, <1>14

\* The first of a set of positions in the pool.
LEMMA PositionsFinite ==
  ASSUME NEW q \in Seq(Candidate), NEW K \in SUBSET DOMAIN q
  PROVE  IsFiniteSet(K)
<1>1. DOMAIN q = 1..Len(q) /\ Len(q) \in Nat OBVIOUS
<1>2. IsFiniteSet(DOMAIN q) BY <1>1, FS_Interval
<1> QED BY <1>2, FS_Subset

\* Any two items are ordered by their review rows.
LEMMA PrecedesIsOrder ==
  ASSUME LearnerTypeOK
  PROVE  /\ \A i, j \in Items : i = j \/ Precedes(i, j) \/ Precedes(j, i)
         /\ \A i, j, k \in Items : Precedes(i, j) /\ Precedes(j, k) => Precedes(i, k)
         /\ \A i \in Items : ~Precedes(i, i)
<1>1. \A i \in Items : review[i].next \in Nat /\ mastery[i] \in Nat /\ i \in Nat
  BY ItemsAssumption DEF LearnerTypeOK
<1>2. \A i, j \in Items : i = j \/ Precedes(i, j) \/ Precedes(j, i)
  BY <1>1 DEF Precedes
<1>3. \A i, j, k \in Items : Precedes(i, j) /\ Precedes(j, k) => Precedes(i, k)
  BY <1>1 DEF Precedes
<1>4. \A i \in Items : ~Precedes(i, i)
  BY <1>1 DEF Precedes
<1> QED BY <1>2, <1>3, <1>4

\* The dominant target of a review candidate is one of its usable targets.
LEMMA DominantIsUsable ==
  ASSUME LearnerTypeOK, NEW c \in Candidate, Usable(c) # {}
  PROVE  Dominant(c) \in Usable(c) /\ Dominant(c) \in Items
<1>1. Usable(c) \in SUBSET Items
  BY DEF Usable, Candidate
<1>2. PICK i \in Usable(c) : \A j \in Usable(c) : i = j \/ <<i, j>> \in ByReview
  <2> DEFINE T == Usable(c)
  <2> HIDE DEF T
  <2>1. T \in SUBSET Items /\ T # {} BY <1>1 DEF T
  <2>2. \E i \in T : \A j \in T : i = j \/ <<i, j>> \in ByReview
    BY <2>1, ItemsFinite, ReviewOrder, FirstExists
  <2> QED BY <2>2 DEF T
<1>3. \A j \in Usable(c) : i = j \/ Precedes(i, j)
  BY <1>2 DEF ByReview
<1>4. Dominant(c) \in Usable(c)
  BY <1>3 DEF Dominant
<1> QED BY <1>1, <1>4

\* The best review of some is one of them.
LEMMA BestReviewIsIn ==
  ASSUME LearnerTypeOK, NEW q \in Seq(Candidate), NEW bucket \in SUBSET DOMAIN q,
         \A k \in bucket : Usable(q[k]) # {}, bucket # {}
  PROVE  BestReview(q, bucket) \in bucket
<1> DEFINE dom == [k \in bucket |-> Dominant(q[k])]
           First(k, l) == BeforeReview(q, k, l, dom[k], dom[l])
           R == {kl \in bucket \X bucket : First(kl[1], kl[2])}
<1>1. \A k \in bucket : dom[k] \in Items
  BY DominantIsUsable
<1>2. \A k \in bucket : k \in Nat
  OBVIOUS
<1>3. BestReview(q, bucket) = CHOOSE k \in bucket : \A l \in bucket \ {k} :
          BeforeReview(q, k, l, Dominant(q[k]), Dominant(q[l]))
  BY DEF BestReview
<1>4. \A k, l \in bucket :
        BeforeReview(q, k, l, Dominant(q[k]), Dominant(q[l])) <=> First(k, l)
  OBVIOUS
<1> HIDE DEF dom
<1>5. \A k, l \in bucket : k = l \/ First(k, l) \/ First(l, k)
  BY <1>1, <1>2, PrecedesIsOrder DEF BeforeReview
<1>6. \A k, l, m \in bucket : First(k, l) /\ First(l, m) => First(k, m)
  BY <1>1, <1>2, PrecedesIsOrder DEF BeforeReview
<1> HIDE DEF First
<1>7. \A k, l \in bucket : <<k, l>> \in R <=> First(k, l)
  OBVIOUS
<1> HIDE DEF R
<1>8. Orders(R, bucket)
  BY <1>5, <1>6, <1>7 DEF Orders
<1>9. \E k \in bucket : \A l \in bucket : k = l \/ <<k, l>> \in R
  BY <1>8, PositionsFinite, FirstExists
<1>10. \E k \in bucket : \A l \in bucket \ {k} :
          BeforeReview(q, k, l, Dominant(q[k]), Dominant(q[l]))
  BY <1>4, <1>7, <1>9
<1> QED BY <1>3, <1>10

\* And there is none of nothing.
LEMMA BestReviewIsThere ==
  ASSUME LearnerTypeOK, NEW q \in Seq(Candidate), NEW bucket \in SUBSET DOMAIN q,
         \A k \in bucket : Usable(q[k]) # {}
  PROVE  BestReview(q, bucket) \in {0} \cup bucket
<1>1. CASE bucket = {}
  BY <1>1 DEF BestReview
<1>2. CASE bucket # {}
  BY <1>2, BestReviewIsIn
<1> QED BY <1>1, <1>2

\* What is selected is there, and a review has a target that may be shown.
Selectable(q, k) == /\ k \in DOMAIN q
                    /\ q[k].role = "review" => Usable(q[k]) # {}

\* A review that is selected is in the pool and has a usable target.
LEMMA SelectReviewIsThere ==
  ASSUME LearnerTypeOK, NEW q \in Seq(Candidate)
  PROVE  SelectReview(q) = 0 \/ Selectable(q, SelectReview(q))
<1> DEFINE usable == {k \in ReadyOf(q, "review") : Usable(q[k]) # {}}
           reason == ChooseReviewReason({q[k].reason : k \in usable},
                                        Presented("review"), Reinforced, Share)
           bucket == {k \in usable : q[k].reason = reason}
<1>1. SelectReview(q) = BestReview(q, bucket)
  BY DEF SelectReview
<1>2. bucket \in SUBSET DOMAIN q /\ \A k \in bucket : Usable(q[k]) # {}
  BY DEF ReadyOf
<1> HIDE DEF bucket
<1>3. BestReview(q, bucket) \in {0} \cup bucket
  BY <1>2, BestReviewIsThere
<1> QED BY <1>1, <1>2, <1>3 DEF Selectable

\* An exploration that is selected is in the pool.
LEMMA SelectExplorationIsThere ==
  ASSUME NEW q \in Seq(Candidate)
  PROVE  SelectExploration(q) = 0 \/ Selectable(q, SelectExploration(q))
<1> DEFINE still(k) == {i \in q[k].targets : Unexplored(i)}
           least(k) == Least(still(k))
           Before(k, l) == \/ least(k) < least(l)
                           \/ least(k) = least(l) /\ k <= l
           usable == {k \in ReadyOf(q, "exploration") : still(k) # {}}
           R == {kl \in usable \X usable : Before(kl[1], kl[2])}
<1>1. SelectExploration(q) = IF usable = {} THEN 0
        ELSE CHOOSE k \in usable : \A l \in usable : Before(k, l)
  BY DEF SelectExploration
<1>2. \A k \in usable : /\ k \in DOMAIN q /\ k \in Nat
                        /\ q[k].role = "exploration"
  BY DEF ReadyOf
<1>3. CASE usable = {}
  BY <1>1, <1>3
<1>4. CASE usable # {}
  <2>1. \A k \in usable : least(k) \in Nat
    <3> TAKE k \in usable
    <3>1. q[k] \in Candidate BY <1>2
    <3>2. still(k) \in SUBSET Nat /\ still(k) # {}
      BY <3>1, ItemsAssumption DEF Candidate
    <3> DEFINE T == still(k)
    <3> HIDE DEF T
    <3>3. T \in SUBSET Nat /\ T # {} BY <3>2 DEF T
    <3>4. Least(T) \in Nat BY <3>3, LeastExists
    <3> QED BY <3>4 DEF T
  <2>2. usable \in SUBSET DOMAIN q BY <1>2
  <2> HIDE DEF usable, least
  <2>3. \A k, l \in usable : k = l \/ Before(k, l) \/ Before(l, k)
    BY <1>2, <2>1
  <2>4. \A k, l, m \in usable : Before(k, l) /\ Before(l, m) => Before(k, m)
    BY <1>2, <2>1
  <2>5. \A k \in usable : Before(k, k)
    BY <1>2, <2>1
  <2> HIDE DEF Before
  <2>6. \A k, l \in usable : <<k, l>> \in R <=> Before(k, l)
    OBVIOUS
  <2> HIDE DEF R
  <2>7. Orders(R, usable)
    BY <2>3, <2>4, <2>6 DEF Orders
  <2>8. \E k \in usable : \A l \in usable : k = l \/ <<k, l>> \in R
    BY <1>4, <2>2, <2>7, PositionsFinite, FirstExists
  <2>9. \E k \in usable : \A l \in usable : Before(k, l)
    BY <2>5, <2>6, <2>8
  <2>10. SelectExploration(q) \in usable
    BY <1>1, <1>4, <2>9
  <2> QED BY <1>2, <2>10 DEF Selectable
<1> QED BY <1>3, <1>4

\* A new candidate that is selected is in the pool.
LEMMA SelectNewIsThere ==
  ASSUME NEW q \in Seq(Candidate)
  PROVE  SelectNew(q) = 0 \/ Selectable(q, SelectNew(q))
<1> DEFINE ready == ReadyOf(q, "new")
<1>1. ready \in SUBSET Nat
  BY DEF ReadyOf
<1>2. SelectNew(q) = IF ready = {} THEN 0 ELSE Least(ready)
  BY DEF SelectNew
<1>3. CASE ready = {}
  BY <1>2, <1>3
<1>4. CASE ready # {}
  <2>1. Least(ready) \in ready
    <3> HIDE DEF ready
    <3> QED BY <1>1, <1>4, LeastExists
  <2> QED BY <1>2, <1>4, <2>1 DEF ReadyOf, Selectable
<1> QED BY <1>3, <1>4

\* Whatever is selected is in the pool, a review with a usable target.
LEMMA SelectIsThere ==
  ASSUME LearnerTypeOK, NEW q \in Seq(Candidate), NEW role \in Roles
  PROVE  Select(q, role) = 0 \/ Selectable(q, Select(q, role))
  BY SelectReviewIsThere, SelectExplorationIsThere, SelectNewIsThere
     DEF Select, Roles

\* The anchor that is shown again for an item not shown often enough.
LEMMA AgainIsOK ==
  ASSUME ContentTypeOK, LearnerTypeOK, NEW q \in Seq(Candidate), Showable(q),
         NEW anchors, AnchorsOK(anchors)
  PROVE  LET again == ReusedAnchor(q, anchors)
         IN  /\ q \o again \in Seq(Candidate)
             /\ Showable(q \o again)
             /\ again # <<>> => Selectable(q \o again, Len(q) + 1)
<1> DEFINE pick == [i \in Items |-> StageSentence(i, Anchor, anchors[i])]
           fit == {i \in Items : Reusable(q, i, pick[i])}
           First == CHOOSE i \in fit : \A j \in fit \ {i} : Precedes(i, j)
           again == ReusedAnchor(q, anchors)
<1>1. CASE fit = {}
  <2>1. again = <<>> BY <1>1 DEF ReusedAnchor
  <2>2. q \o again = q BY <2>1
  <2> QED BY <2>1, <2>2
<1>2. CASE fit # {}
  <2> DEFINE c == [role |-> "review", reason |-> "reinforcement",
                   stage |-> Anchor, sentence |-> pick[First].sentence,
                   targets |-> {First}]
  <2>1. again = <<c>> BY <1>2 DEF ReusedAnchor
  <2>2. First \in fit
    <3>1. fit \in SUBSET Items OBVIOUS
    <3> HIDE DEF fit
    <3>2. PICK i \in fit : \A j \in fit : i = j \/ <<i, j>> \in ByReview
      <4>1. IsFiniteSet(fit) BY <3>1, ItemsFinite, FS_Subset
      <4>2. Orders(ByReview, fit) BY <3>1, ReviewOrder
      <4> QED BY <1>2, <4>1, <4>2, FirstExists
    <3>3. \A j \in fit \ {i} : Precedes(i, j)
      BY <3>2 DEF ByReview
    <3> QED BY <3>3
  <2> HIDE DEF First
  <2> DEFINE i == First
             s == pick[i].sentence
  <2>3. i \in Items /\ Reusable(q, i, pick[i])
    BY <2>2
  <2>4. PickOK(i, anchors[i], pick[i])
    <3>1. Anchor \in Stages BY DEF Stages, Anchor, NewContext
    <3>2. anchors[i] \in 0..MaxSentence BY <2>3 DEF AnchorsOK
    <3> QED BY <2>3, <3>1, <3>2, StagePicked
  <2>5. Fit(i, s) /\ s \in Sentences
    BY <2>3, <2>4 DEF PickOK, Reusable, Fit
  <2> HIDE DEF pick
  <2>6. /\ c \in Candidate /\ c.targets = {i} /\ c.sentence = s
        /\ c.role = "review" /\ c.stage = Anchor /\ c.reason = "reinforcement"
    BY <2>3, <2>5 DEF Candidate, Roles, Reasons, Stages, Anchor, NewContext
  <2>7. \A k \in DOMAIN q : ~SameKey(q[k], c.role, c.sentence, c.stage)
    BY <2>3, <2>6 DEF Reusable
  <2> HIDE DEF c
  <2>8. q \o again = Append(q, c)
    BY <2>1, <2>6
  <2>9. Append(q, c) \in Seq(Candidate) /\ Showable(Append(q, c))
    BY <2>5, <2>6, <2>7, AppendedIsShowable
  <2>10. i \in Usable(c)
    BY <2>3, <2>6 DEF Usable, Reusable
  <2>11. /\ Len(q) + 1 \in DOMAIN Append(q, c)
         /\ Append(q, c)[Len(q) + 1] = c
    BY <2>6
  <2>12. Selectable(q \o again, Len(q) + 1)
    BY <2>8, <2>10, <2>11 DEF Selectable
  <2> QED BY <2>8, <2>9, <2>12
<1> QED BY <1>1, <1>2

\* What select_next comes to.
ChoiceOK(choice) ==
  /\ choice.pool \in Seq(Candidate)
  /\ Showable(choice.pool)
  /\ AnchorsOK(choice.anchor)
  /\ choice.explain \subseteq Sentences
  /\ choice.context \subseteq Gap
  /\ \A g \in choice.context : GapOK(g)
  /\ choice.pick = 0 \/ Selectable(choice.pool, choice.pick)

\* After materialization: one of its candidates, an anchor again, or nothing.
LEMMA SelectAfterIsOK ==
  ASSUME ContentTypeOK, LearnerTypeOK, NEW made, AccOK(made),
         NEW ranked, \A n \in 1..3 : ranked[n] \in Roles
  PROVE  ChoiceOK(SelectAfter(made, ranked))
<1> DEFINE selected == [n \in 1..3 |-> Select(made.pool, ranked[n])]
           found == {n \in 1..3 : selected[n] # 0}
           choice == SelectAfter(made, ranked)
<1>1. /\ made.pool \in Seq(Candidate) /\ Showable(made.pool)
      /\ AnchorsOK(made.anchor)
      /\ made.explain \subseteq Sentences /\ made.context \subseteq Gap
      /\ \A g \in made.context : GapOK(g)
  BY DEF AccOK, Acc
<1>2. CASE found = {}
  <2> DEFINE again == ReusedAnchor(made.pool, made.anchor)
             pick == IF again = <<>> THEN 0 ELSE Len(made.pool) + 1
  <2>1. /\ made.pool \o again \in Seq(Candidate)
        /\ Showable(made.pool \o again)
        /\ again # <<>> => Selectable(made.pool \o again, Len(made.pool) + 1)
    BY <1>1, AgainIsOK
  <2>2. choice = [pool |-> made.pool \o again, anchor |-> made.anchor,
                  explain |-> made.explain, context |-> made.context,
                  pick |-> pick]
    BY <1>2 DEF SelectAfter, Fallback, Refilled
  <2> HIDE DEF again, choice
  <2> QED BY <1>1, <2>1, <2>2 DEF ChoiceOK, choice
<1>3. CASE found # {}
  <2>1. Least(found) \in found
    <3>1. found \in SUBSET Nat OBVIOUS
    <3> HIDE DEF found
    <3> QED BY <1>3, <3>1, LeastExists
  <2> DEFINE n == Least(found)
  <2>2. n \in 1..3 /\ selected[n] # 0
    BY <2>1
  <2>3. choice = [pool |-> made.pool, anchor |-> made.anchor,
                  explain |-> made.explain, context |-> made.context,
                  pick |-> selected[n]]
    BY <1>3 DEF SelectAfter, Refilled
  <2> HIDE DEF found, n, choice
  <2>4. Selectable(made.pool, selected[n])
    BY <1>1, <2>2, SelectIsThere
  <2> HIDE DEF selected
  <2> QED BY <1>1, <2>3, <2>4 DEF ChoiceOK, choice
<1> QED BY <1>2, <1>3

\* select_next hands over a candidate of a pool that can be shown.
LEMMA SelectNextIsOK ==
  ASSUME ContentTypeOK, LearnerTypeOK, AnchorInv, pool \in Seq(Candidate),
         PoolIsShowable, shown \in Seq(Presentation)
  PROVE  ChoiceOK(SelectNext)
<1> DEFINE first == Select(pool, Ranked[1])
<1>1. SelectNext = SelectFirst(Ranked, first)
  BY DEF SelectNext
<1>2. CASE first # 0
  <2>1. Ranked[1] \in Roles BY RankedAreRoles
  <2>2. Selectable(pool, first) BY <1>2, <2>1, SelectIsThere
  <2>3. AnchorsOK(OldAnchors) BY OldAnchorsAreOK
  <2> HIDE DEF first
  <2>4. SelectNext = [pool |-> pool, anchor |-> OldAnchors, explain |-> {},
                      context |-> {}, pick |-> first]
    BY <1>1, <1>2 DEF SelectFirst, Kept, OldAnchors
  <2> QED BY <2>2, <2>3, <2>4 DEF ChoiceOK, PoolIsShowable
<1>3. CASE first = 0
  <2>1. SelectNext = SelectAfter(Materialized(session.lang), Ranked)
    BY <1>1, <1>3 DEF SelectFirst
  <2>2. \A n \in 1..3 : Ranked[n] \in Roles BY RankedAreRoles
  <2>3. AccOK(Materialized(session.lang)) BY MaterializedIsOK
  <2> QED BY <2>1, <2>2, <2>3, SelectAfterIsOK
<1> QED BY <1>2, <1>3

-----------------------------------------------------------------------------
(* What the worker is asked for *)

JobOK(j) == j \in Job /\ (j.kind = "context" => GapOK([item |-> j.item,
                              stage |-> j.stage, anchor |-> j.anchor]))

\* Jobs for batches are jobs.
LEMMA BatchJobsAreOK ==
  ASSUME NEW lang \in Langs
  PROVE  BatchJobs(lang) \in Seq({j \in Job : JobOK(j)})
<1> DEFINE jobs == BatchJobs(lang)
           Good == {j \in Job : JobOK(j)}
<1>1. jobs = [n \in 1..3 |-> [kind |-> "batch", lang |-> lang,
                 role |-> <<"review", "new", "exploration">>[n]]]
  BY DEF BatchJobs
<1>2. ASSUME NEW n \in 1..3 PROVE jobs[n] \in Good
  <2>1. <<"review", "new", "exploration">>[n] \in Roles
    BY DEF Roles
  <2> DEFINE r == <<"review", "new", "exploration">>[n]
  <2> HIDE DEF r
  <2>2. jobs[n] = [kind |-> "batch", lang |-> lang, role |-> r]
    BY <1>1 DEF r
  <2>3. jobs[n] \in Job /\ jobs[n].kind = "batch"
    BY <2>1, <2>2 DEF Job, r
  <2> QED BY <2>3 DEF JobOK
<1> HIDE DEF Good
<1>3. jobs \in [1..3 -> Good]
  <2>1. jobs = [n \in 1..3 |-> jobs[n]] BY <1>1
  <2> QED BY <1>2, <2>1
<1> HIDE DEF jobs
<1>4. jobs \in Seq(Good)
  <2>1. \A n \in Nat : jobs \in [1..n -> Good] => jobs \in Seq(Good) OBVIOUS
  <2> QED BY <1>3, <2>1
<1> QED BY <1>4 DEF Good, jobs

\* Jobs for gaps are jobs, and those for contexts are for new ones.
LEMMA GapJobsAreOK ==
  ASSUME NEW lang \in Langs, NEW found, found.explain \subseteq Sentences,
         found.context \subseteq Gap, \A g \in found.context : GapOK(g)
  PROVE  GapJobs(found, lang) \in Seq({j \in Job : JobOK(j)})
<1> DEFINE Good == {j \in Job : JobOK(j)}
           R == {st \in Sentences \X Sentences : st[1] < st[2]}
           explain == Sorted(found.explain, R)
           T == {g.item : g \in found.context}
           items == Sorted(T, ById)
           gap == [n \in DOMAIN items |->
                     CHOOSE g \in found.context : g.item = items[n]]
           one == [n \in DOMAIN explain |->
                     [kind |-> "explain", sentence |-> explain[n]]]
           two == [n \in DOMAIN items |->
                     [kind |-> "context", item |-> items[n],
                      stage |-> gap[n].stage, anchor |-> gap[n].anchor,
                      lang |-> lang]]
<1>1. GapJobs(found, lang) = one \o two
  BY DEF GapJobs
<1>2. explain \in Seq(Sentences)
  <2>1. IsFiniteSet(found.explain)
    <3>1. IsFiniteSet(Sentences)
      BY SentencesAreNumbers, FS_Interval DEF Sentences
    <3> QED BY <3>1, FS_Subset
  <2>2. Orders(R, found.explain)
    <3>1. \A s \in found.explain : s \in Nat BY SentencesAreNumbers
    <3>2. \A s, t \in found.explain : <<s, t>> \in R <=> s < t OBVIOUS
    <3> HIDE DEF R
    <3> QED BY <3>1, <3>2 DEF Orders
  <2> HIDE DEF R
  <2>3. explain \in Seq(found.explain)
    BY <2>1, <2>2, SortedIs
  <2> QED BY <2>3
<1>3. items \in Seq(T) /\ T \in SUBSET Items
  <2>1. T \in SUBSET Items BY DEF Gap
  <2> HIDE DEF T
  <2> QED BY <2>1, ItemsFinite, IdOrder, SortedIs
<1>4. one \in Seq(Good)
  <2>1. \A n \in DOMAIN explain : explain[n] \in Sentences BY <1>2
  <2> HIDE DEF explain
  <2>2. \A n \in DOMAIN one : one[n] \in Good
    BY <2>1 DEF JobOK, Job
  <2>3. DOMAIN one = 1..Len(explain) /\ Len(explain) \in Nat BY <1>2
  <2> HIDE DEF Good
  <2>4. one \in [1..Len(explain) -> Good] BY <2>2, <2>3
  <2> QED BY <2>3, <2>4
<1>5. two \in Seq(Good)
  <2>1. ASSUME NEW n \in DOMAIN items PROVE two[n] \in Good
    <3>1. items[n] \in T
      <4> HIDE DEF items, T
      <4> QED BY <1>3
    <3>2. gap[n] \in found.context /\ gap[n].item = items[n]
      BY <3>1
    <3>3. two[n] = [kind |-> "context", item |-> items[n],
                    stage |-> gap[n].stage, anchor |-> gap[n].anchor,
                    lang |-> lang]
      OBVIOUS
    <3> DEFINE g == gap[n]
    <3> HIDE DEF g
    <3>4. g \in Gap /\ GapOK(g) /\ g.item = items[n] BY <3>2 DEF g
    <3> HIDE DEF items, gap, two
    <3>5. two[n] \in Job /\ two[n].kind = "context" /\ two[n].item = g.item
          /\ two[n].stage = g.stage /\ two[n].anchor = g.anchor
      BY <3>3, <3>4 DEF Job, Gap, g
    <3>6. [item |-> g.item, stage |-> g.stage, anchor |-> g.anchor] = g
      BY <3>4 DEF Gap
    <3> QED BY <3>4, <3>5, <3>6 DEF JobOK
  <2>2. DOMAIN two = 1..Len(items) /\ Len(items) \in Nat BY <1>3
  <2> HIDE DEF items, Good
  <2>3. two \in [1..Len(items) -> Good] BY <2>1, <2>2
  <2> QED BY <2>2, <2>3
<1> HIDE DEF one, two, Good
<1> QED BY <1>1, <1>4, <1>5 DEF Good

\* A job is put on the list once a day, behind what waits already.
LEMMA AskIsOK ==
  ASSUME pending \in Seq({j \in Job : JobOK(j)}),
         asked \subseteq {JobKey(j) : j \in Job},
         NEW jobs \in Seq({j \in Job : JobOK(j)}), Ask(jobs)
  PROVE  /\ pending' \in Seq({j \in Job : JobOK(j)})
         /\ asked' \subseteq {JobKey(j) : j \in Job}
<1> DEFINE Good == {j \in Job : JobOK(j)}
           new == Filtered(jobs, {j \in ToSet(jobs) : JobKey(j) \notin asked})
<1>1. new \in Seq(Good)
  BY FilteredPicks
<1>2. /\ asked' = asked \cup {JobKey(new[n]) : n \in DOMAIN new}
      /\ pending' = pending \o new
  BY DEF Ask
<1>3. \A n \in DOMAIN new : new[n] \in Good
  BY <1>1
<1> HIDE DEF new
<1>4. \A n \in DOMAIN new : JobKey(new[n]) \in {JobKey(j) : j \in Job}
  BY <1>3
<1>5. asked' \subseteq {JobKey(j) : j \in Job}
  BY <1>2, <1>4
<1> HIDE DEF Good
<1>6. pending' \in Seq(Good)
  BY <1>1, <1>2 DEF Good
<1> QED BY <1>5, <1>6 DEF Good

-----------------------------------------------------------------------------
(* What is planned for a due item *)

\* An item that a role is about is among those it is planned for.
LEMMA PlannedCovers ==
  ASSUME LearnerTypeOK, NEW i \in Items, NEW role \in {"review", "new"},
         role = "review" => review[i].row,
         role = "new" => learn[i].active
  PROVE  LET items == PlannedItems(role, LangOf[i])
         IN  \E n \in 1..Len(items) : items[n] = i
<1> DEFINE mine == {j \in Items : LangOf[j] = LangOf[i]}
           S == IF role = "review" THEN {j \in mine : review[j].row}
                ELSE {j \in mine : learn[j].active}
           R == IF role = "review" THEN ByReview ELSE ById
           items == PlannedItems(role, LangOf[i])
<1>1. items = Sorted(S, R)
  BY DEF PlannedItems
<1>2. i \in S /\ S \in SUBSET Items
  OBVIOUS
<1> HIDE DEF S
<1>3. IsFiniteSet(S)
  BY <1>2, ItemsFinite
<1>4. Orders(R, S)
  BY <1>2, ReviewOrder, IdOrder
<1>5. \A j \in S : <<j, j>> \notin R
  <2>1. \A j \in Items : <<j, j>> \notin ByReview
    BY PrecedesIsOrder DEF ByReview
  <2>2. \A j \in Items : <<j, j>> \notin ById
    BY ItemsAssumption DEF ById
  <2> QED BY <1>2, <2>1, <2>2
<1> HIDE DEF R
<1>6. \E n \in DOMAIN items : items[n] = i
  BY <1>1, <1>2, <1>3, <1>4, <1>5, SortedCovers
<1>7. items \in Seq(Items)
  BY PlannedAreItems DEF Roles
<1> HIDE DEF items
<1>8. \E n \in 1..Len(items) : items[n] = i
  BY <1>6, <1>7
<1> QED BY <1>8 DEF items


\* The sentences that are ready are those that fit.
LEMMA FitIsReady ==
  ASSUME NEW i, NEW s
  PROVE  Fit(i, s) <=> s \in Ready(i, {})
BY DEF Fit, Ready, Examined

\* Low on the ladder something is found as soon as a sentence is ready: an
\* anchor that was resolved is ready too, unless it was quarantined.
LEMMA ResolvedWhenReady ==
  ASSUME ContentTypeOK, NEW i \in Items, NEW anchor \in 0..MaxSentence,
         anchor # 0 => Anchoring(i, anchor), Ready(i, {}) # {}
  PROVE  ResolvedAnchor(i, anchor).sentence \in Ready(i, {})
<1> DEFINE ready == Ready(i, {})
<1>1. ready \in SUBSET Nat
  BY ReadyIsFit
<1>2. Least(ready) \in ready
  <2> HIDE DEF ready
  <2> QED BY <1>1, LeastExists DEF ready
<1>3. CASE anchor \in ready
  BY <1>3 DEF ResolvedAnchor
<1>4. CASE anchor \notin ready
  <2>1. anchor = 0 \/ Quarantined(anchor)
    <3>1. SUFFICES ASSUME anchor # 0, ~Quarantined(anchor) PROVE FALSE
      OBVIOUS
    <3>2. sentences[anchor].status \in {"unborn", "validated", "quarantined"}
      BY <3>1 DEF ContentTypeOK, Anchoring
    <3>3. Fit(i, anchor)
      BY <3>1, <3>2 DEF Anchoring, Fit, Quarantined
    <3> QED BY <1>4, <3>3, FitIsReady
  <2> QED BY <1>2, <1>4, <2>1 DEF ResolvedAnchor
<1> QED BY <1>3, <1>4

\* A sentence for the stages at and near the anchor is found as soon as one is
\* ready.
LEMMA StageWhenReady ==
  ASSUME ContentTypeOK, NEW i \in Items, NEW anchor \in 0..MaxSentence,
         anchor # 0 => Anchoring(i, anchor), Ready(i, {}) # {},
         NEW stage \in {Anchor, NearOriginal}
  PROVE  StageSentence(i, stage, anchor).sentence # 0
<1> DEFINE resolved == ResolvedAnchor(i, anchor)
           s == resolved.sentence
           near == {t \in Ready(i, {}) : \/ t = s
                                         \/ sentences[t].parent = s}
<1>1. s \in Ready(i, {})
  BY ResolvedWhenReady
<1>2. \A t \in Ready(i, {}) : t # 0 /\ t \in Nat
  BY ReadyIsFit, SentencesAreNumbers DEF Fit
<1>3. CASE stage = Anchor
  BY <1>1, <1>2, <1>3 DEF StageSentence, Anchor, NearOriginal,
                                  Varied, NewContext
<1>4. CASE stage = NearOriginal
  <2>1. resolved # NoPick /\ resolved \in [sentence : Sentences,
                                           anchor : 0..MaxSentence]
    <3>1. PickOK(i, anchor, resolved) BY AnchorPicked
    <3>2. resolved # NoPick BY <1>1, <1>2 DEF NoPick
    <3> QED BY <3>1, <3>2 DEF PickOK
  <2>2. NearSentence(i, resolved) = [resolved EXCEPT !.sentence = Least(near)]
    BY <2>1 DEF NearSentence
  <2>3. near \in SUBSET Nat /\ near # {}
    BY <1>1, <1>2
  <2> HIDE DEF near, resolved
  <2>4. Least(near) \in near
    BY <2>3, LeastExists
  <2>5. NearSentence(i, resolved).sentence = Least(near)
    BY <2>1, <2>2
  <2>6. Least(near) # 0
    BY <1>2, <2>4 DEF near
  <2> QED BY <1>4, <2>5, <2>6 DEF StageSentence, resolved, Anchor, NearOriginal, Varied,
                              NewContext
<1> QED BY <1>3, <1>4

\* What a plan is about: its gaps are the item's at its stage, a review that
\* is planned has a reason.
LEMMA PlanIsAbout ==
  ASSUME NEW i \in Items, NEW role \in Roles, NEW anchor
  PROVE  LET plan == PlanOf(role, i, anchor)
         IN  /\ \A g \in plan.context : g.item = i /\ g.stage = learn[i].stage
             /\ role = "review" /\ plan.sentence # 0 => plan.reason \in Reasons
<1> DEFINE plan == PlanOf(role, i, anchor)
           stage == learn[i].stage
           reason == ReviewReason(i)
           pick == StageSentence(i, stage, anchor)
           gaps == IF pick = NoPick THEN ContextGap(i, stage, anchor) ELSE {}
           from == PlanFrom(i, SeenAt(stage), stage, reason, pick)
<1>1. CASE role = "review"
  <2>1. plan = ReviewPlan(i, anchor)
    BY <1>1 DEF PlanOf
  <2>2. CASE Exposures(i) = 0 \/ reason = NoReason
    <3>1. plan = NoPlan BY <2>1, <2>2 DEF ReviewPlan
    <3> QED BY <3>1 DEF NoPlan
  <2>3. CASE ~(Exposures(i) = 0 \/ reason = NoReason)
    <3>1. plan = [from EXCEPT !.context = gaps]
      BY <2>1, <2>3 DEF ReviewPlan
    <3>2. plan.context = gaps /\ plan.reason = reason
      BY <3>1 DEF PlanFrom
    <3>3. \A g \in gaps : g.item = i /\ g.stage = stage
      BY DEF ContextGap
    <3>4. reason \in Reasons
      BY <2>3 DEF ReviewReason, Reasons
    <3> HIDE DEF plan, gaps, reason
    <3> QED BY <3>2, <3>3, <3>4 DEF plan
  <2> QED BY <2>2, <2>3
<1>2. CASE role # "review"
  <2>1. plan.context = {}
    BY <1>2 DEF PlanOf, Roles, NewPlan, ExplorationPlan, NoPlan, PlanFrom
  <2> HIDE DEF plan
  <2> QED BY <1>2, <2>1 DEF plan
<1> QED BY <1>1, <1>2

\* A due review that was exposed is planned with a sentence, or notes a gap,
\* or nothing is ready, or it is stranded.
LEMMA DueIsPlanned ==
  ASSUME ContentTypeOK, LearnerTypeOK, NEW i \in Items, Due(i),
         Exposures(i) # 0, NEW anchor \in 0..MaxSentence,
         anchor # 0 => Anchoring(i, anchor), Ready(i, {}) # {}
  PROVE  LET plan == ReviewPlan(i, anchor)
         IN  /\ plan.stage = learn[i].stage
             /\ \/ plan.sentence # 0
                \/ \E g \in plan.context : g.item = i
                \/ /\ learn[i].stage \in {Varied, NewContext}
                   /\ anchor = 0 \/ Quarantined(anchor)
<1> DEFINE plan == ReviewPlan(i, anchor)
           stage == learn[i].stage
           reason == ReviewReason(i)
           pick == StageSentence(i, stage, anchor)
           gaps == IF pick = NoPick THEN ContextGap(i, stage, anchor) ELSE {}
           from == PlanFrom(i, SeenAt(stage), stage, reason, pick)
<1>1. reason \in {"context_repair", "fsrs_due"}
  BY DEF ReviewReason
<1>2. plan = [from EXCEPT !.context = gaps]
  <2>1. reason # NoReason BY <1>1 DEF NoReason
  <2> QED BY <2>1 DEF ReviewPlan
<1>3. /\ plan.stage = stage /\ plan.context = gaps
      /\ plan.sentence = pick.sentence
  BY <1>2 DEF PlanFrom
<1>4. stage \in Stages
  BY DEF LearnerTypeOK
<1>5. PickOK(i, anchor, pick)
  BY <1>4, StagePicked
<1> HIDE DEF plan, pick
<1>6. CASE pick # NoPick
  <2>1. pick.sentence # 0
    BY <1>5, <1>6, SentencesAreNumbers DEF PickOK
  <2> QED BY <1>3, <2>1 DEF plan
<1>7. CASE pick = NoPick
  <2>1. pick.sentence = 0
    BY <1>7 DEF NoPick
  <2>2. stage \notin {Anchor, NearOriginal}
    BY <2>1, StageWhenReady DEF pick
  <2>3. stage \in {Varied, NewContext}
    BY <1>4, <2>2 DEF Stages, Anchor, NearOriginal, Varied, NewContext
  <2>4. CASE anchor = 0 \/ Quarantined(anchor)
    BY <1>3, <2>3, <2>4 DEF plan
  <2>5. CASE ~(anchor = 0 \/ Quarantined(anchor))
    <3>1. [item |-> i, stage |-> stage, anchor |-> anchor] \in plan.context
      BY <1>3, <1>7, <2>5 DEF ContextGap
    <3> QED BY <1>3, <3>1 DEF plan
  <2> QED BY <2>4, <2>5
<1> QED BY <1>6, <1>7

\* An active item that was never exposed is planned as soon as a sentence is
\* ready.
LEMMA NewIsPlanned ==
  ASSUME ContentTypeOK, NEW i \in Items, Exposures(i) = 0,
         NEW anchor \in 0..MaxSentence, anchor # 0 => Anchoring(i, anchor),
         Ready(i, {}) # {}
  PROVE  NewPlan(i, anchor).sentence # 0
<1>1. StageSentence(i, Anchor, anchor).sentence # 0
  BY StageWhenReady
<1> QED BY <1>1 DEF NewPlan, PlanFrom

-----------------------------------------------------------------------------
(* What materialization covers *)

\* The candidates of a pool keep their places and keys in the other.
GoesOn(q, r) ==
  /\ Len(q) <= Len(r)
  /\ \A k \in DOMAIN q : /\ k \in DOMAIN r
                         /\ r[k].role = q[k].role
                         /\ r[k].stage = q[k].stage
                         /\ r[k].sentence = q[k].sentence

\* Pools go on from themselves, and from one to the next.
LEMMA GoesOnAndOn ==
  ASSUME NEW q \in Seq(Candidate), NEW r \in Seq(Candidate),
         NEW t \in Seq(Candidate)
  PROVE  /\ GoesOn(q, q)
         /\ GoesOn(q, r) /\ GoesOn(r, t) => GoesOn(q, t)
<1>1. Len(q) \in Nat /\ Len(r) \in Nat /\ Len(t) \in Nat
  OBVIOUS
<1> QED BY <1>1 DEF GoesOn

\* A review is made for a reason.
Reasoned(q) == \A k \in DOMAIN q : q[k].role = "review" => q[k].reason \in Reasons

\* A context is asked for the stage that its item is at.
Staged(gaps) == \A g \in gaps : g.stage = learn[g.item].stage

\* A materialization under way stops for a whole batch only.
Filling(acc) == /\ AccOK(acc)
                /\ Reasoned(acc.pool)
                /\ Staged(acc.context)
                /\ acc.base \in Nat
                /\ acc.full => Len(acc.pool) - acc.base >= BatchSize

\* What a materialization under way has become.
Later(a, b) == /\ b.base = a.base
               /\ GoesOn(a.pool, b.pool)
               /\ a.context \subseteq b.context

\* Materializations go on from themselves, and from one to the next.
LEMMA LaterAndLater ==
  ASSUME NEW a, AccOK(a), NEW b, AccOK(b), NEW c, AccOK(c)
  PROVE  /\ Later(a, a)
         /\ Later(a, b) /\ Later(b, c) => Later(a, c)
<1>1. /\ a.pool \in Seq(Candidate) /\ b.pool \in Seq(Candidate)
      /\ c.pool \in Seq(Candidate)
  BY DEF AccOK, Acc
<1>2. /\ GoesOn(a.pool, a.pool)
      /\ GoesOn(a.pool, b.pool) /\ GoesOn(b.pool, c.pool)
         => GoesOn(a.pool, c.pool)
  BY <1>1, GoesOnAndOn
<1> QED BY <1>2 DEF Later

\* Noting a plan leaves the pool as it was.
LEMMA NotedIs ==
  ASSUME NEW acc, AccOK(acc), NEW i \in Items, NEW plan
  PROVE  LET noted == Noted(acc, i, plan)
         IN  /\ noted.pool = acc.pool /\ noted.base = acc.base
             /\ noted.full = acc.full
             /\ noted.context = acc.context \cup plan.context
BY DEF Noted, AccOK, Acc

\* Joining changes targets and nothing else.
LEMMA JoinedIs ==
  ASSUME NEW acc, AccOK(acc), NEW i, NEW own
  PROVE  LET joined == Joined(acc, own, i)
         IN  /\ joined.base = acc.base /\ joined.full = acc.full
             /\ joined.context = acc.context
             /\ DOMAIN joined.pool = DOMAIN acc.pool
             /\ \A k \in DOMAIN acc.pool :
                  /\ joined.pool[k].role = acc.pool[k].role
                  /\ joined.pool[k].stage = acc.pool[k].stage
                  /\ joined.pool[k].sentence = acc.pool[k].sentence
                  /\ joined.pool[k].reason = acc.pool[k].reason
<1> DEFINE q == acc.pool
           Takes(k) == k \in own /\ Cardinality(q[k].targets) < MaxTargets
           r == [k \in DOMAIN q |->
                   IF Takes(k)
                   THEN [q[k] EXCEPT !.targets = q[k].targets \cup {i}]
                   ELSE q[k]]
           joined == Joined(acc, own, i)
<1>1. joined = [acc EXCEPT !.pool = r]
  BY DEF Joined, AccOK, Acc
<1>2. q \in Seq(Candidate)
  BY DEF AccOK, Acc
<1>3. ASSUME NEW k \in DOMAIN q
      PROVE  /\ r[k].role = q[k].role /\ r[k].sentence = q[k].sentence
             /\ r[k].stage = q[k].stage /\ r[k].reason = q[k].reason
  <2>1. q[k] \in Candidate BY <1>2
  <2>2. CASE Takes(k)
    <3>1. r[k] = [q[k] EXCEPT !.targets = q[k].targets \cup {i}] BY <2>2
    <3> HIDE DEF Takes, q
    <3> QED BY <2>1, <3>1 DEF Candidate
  <2>3. CASE ~Takes(k)
    <3>1. r[k] = q[k] BY <2>3
    <3> QED BY <3>1
  <2> QED BY <2>2, <2>3
<1>4. DOMAIN r = DOMAIN q OBVIOUS
<1> HIDE DEF r, joined
<1>5. /\ joined.pool = r /\ joined.base = acc.base /\ joined.full = acc.full
      /\ joined.context = acc.context
  BY <1>1 DEF AccOK, Acc
<1> QED BY <1>3, <1>4, <1>5 DEF joined

\* A candidate that is made comes last in the pool.
LEMMA CreatedIs ==
  ASSUME NEW acc, AccOK(acc), NEW role, NEW i, NEW plan
  PROVE  LET made == Created(acc, role, i, plan)
         IN  /\ made.base = acc.base /\ made.full = acc.full
             /\ made.context = acc.context
             /\ made.pool = Append(acc.pool,
                  [role |-> role, reason |-> plan.reason, stage |-> plan.stage,
                   sentence |-> plan.sentence, targets |-> {i}])
BY DEF Created, AccOK, Acc

\* What one plan comes to: it is noted, and unless the batch is full there is a
\* candidate with its key.
LEMMA PulledCovers ==
  ASSUME ContentTypeOK, LearnerTypeOK, NEW acc, Filling(acc), NEW i \in Items,
         NEW role \in Roles
  PROVE  LET plan == PlanOf(role, i, acc.anchor[i])
             next == Pulled(acc, role, i)
         IN  /\ Filling(next)
             /\ Later(acc, next)
             /\ ~next.full =>
                  /\ plan.context \subseteq next.context
                  /\ plan.sentence # 0 =>
                       \E k \in DOMAIN next.pool :
                          SameKey(next.pool[k], role, plan.sentence, plan.stage)
<1> DEFINE plan == PlanOf(role, i, acc.anchor[i])
           next == Pulled(acc, role, i)
           noted == Noted(acc, i, plan)
           same == {k \in DOMAIN acc.pool :
                      SameKey(acc.pool[k], role, plan.sentence, plan.stage)}
           own == {k \in same : k > noted.base}
           Placed2(a) == plan.sentence # 0 => \E k \in DOMAIN a.pool :
                            SameKey(a.pool[k], role, plan.sentence, plan.stage)
<1>1. AccOK(acc) /\ AccOK(next)
  BY PulledIsOK DEF Filling
<1>2. /\ acc.pool \in Seq(Candidate) /\ next.pool \in Seq(Candidate)
      /\ Len(acc.pool) \in Nat /\ acc.base \in Nat /\ BatchSize \in Nat
  BY <1>1, PolicyAssumption DEF AccOK, Acc, Filling
<1>3. CASE acc.full
  <2>1. next = acc BY <1>3 DEF Pulled
  <2> HIDE DEF next
  <2> QED BY <1>1, <1>3, <2>1, LaterAndLater DEF next
<1>4. CASE ~acc.full
  <2>1. /\ \A g \in plan.context : g.item = i /\ g.stage = learn[i].stage
        /\ role = "review" /\ plan.sentence # 0 => plan.reason \in Reasons
    BY PlanIsAbout
  <2>2. next = Inserted(noted, role, i, plan, same)
    BY <1>4 DEF Pulled, Placed
  <2>3. /\ noted.pool = acc.pool /\ noted.base = acc.base /\ ~noted.full
        /\ noted.context = acc.context \cup plan.context
    BY <1>1, <1>4, NotedIs
  <2>4. PlanOK(i, acc.anchor[i], plan)
    <3>1. AnchorsOK(acc.anchor) BY <1>1 DEF AccOK
    <3> QED BY <3>1, PlansAreOK DEF AnchorsOK
  <2>5. AccOK(noted)
    BY <1>1, <2>4, NotedIsOK
  <2>6. Staged(noted.context)
    BY <2>1, <2>3 DEF Filling, Staged
  <2> HIDE DEF noted, next, plan
  \* It suffices to look at the pool, the base and whether it is full.
  <2>7. ASSUME next.base = acc.base, next.context = noted.context,
               GoesOn(acc.pool, next.pool), Reasoned(next.pool),
               next.full => Len(next.pool) - next.base >= BatchSize,
               ~next.full => Placed2(next)
        PROVE  /\ Filling(next)
               /\ Later(acc, next)
               /\ ~next.full => plan.context \subseteq next.context
               /\ ~next.full => Placed2(next)
    BY <1>1, <1>2, <2>3, <2>6, <2>7 DEF Filling, Later
  <2>8. GoesOn(acc.pool, acc.pool) /\ Reasoned(acc.pool)
    BY <1>2, GoesOnAndOn DEF Filling
  <2>9. CASE plan.sentence = 0
    <3>1. next = noted BY <2>2, <2>9 DEF Inserted
    <3> QED BY <2>3, <2>7, <2>8, <2>9, <3>1 DEF plan, next
  <2>10. CASE plan.sentence # 0 /\ own # {}
    <3>1. next = Joined(noted, own, i) BY <2>2, <2>10 DEF Inserted
    <3>2. /\ next.base = acc.base /\ ~next.full /\ next.context = noted.context
          /\ DOMAIN next.pool = DOMAIN acc.pool
          /\ \A k \in DOMAIN acc.pool :
               /\ next.pool[k].role = acc.pool[k].role
               /\ next.pool[k].stage = acc.pool[k].stage
               /\ next.pool[k].sentence = acc.pool[k].sentence
               /\ next.pool[k].reason = acc.pool[k].reason
      <4> HIDE DEF own
      <4> QED BY <2>3, <2>5, <3>1, JoinedIs
    <3>3. Len(next.pool) = Len(acc.pool)
      BY <1>2, <3>2
    <3>4. GoesOn(acc.pool, next.pool) /\ Reasoned(next.pool)
      BY <1>2, <2>8, <3>2, <3>3 DEF GoesOn, Reasoned
    <3>5. Placed2(next)
      <4>1. PICK k \in own : TRUE BY <2>10
      <4> QED BY <3>2, <4>1 DEF SameKey
    <3> QED BY <2>7, <3>2, <3>4, <3>5 DEF plan, next
  <2>11. CASE /\ plan.sentence # 0 /\ own = {}
              /\ Len(noted.pool) - noted.base >= BatchSize
    <3>1. next = [noted EXCEPT !.full = TRUE]
      BY <2>2, <2>11 DEF Inserted
    <3>2. /\ next.pool = noted.pool /\ next.base = noted.base /\ next.full
          /\ next.context = noted.context
      BY <2>5, <3>1 DEF AccOK, Acc
    <3> QED BY <2>3, <2>7, <2>8, <2>11, <3>2 DEF plan, next
  <2>12. CASE /\ plan.sentence # 0 /\ own = {} /\ same # {}
              /\ ~(Len(noted.pool) - noted.base >= BatchSize)
    <3>1. next = noted
      BY <2>2, <2>12 DEF Inserted
    <3>2. Placed2(next)
      BY <2>3, <2>12, <3>1
    <3> QED BY <2>3, <2>7, <2>8, <3>1, <3>2 DEF plan, next
  <2>13. CASE /\ plan.sentence # 0 /\ own = {} /\ same = {}
              /\ ~(Len(noted.pool) - noted.base >= BatchSize)
    <3> DEFINE c == [role |-> role, reason |-> plan.reason,
                     stage |-> plan.stage, sentence |-> plan.sentence,
                     targets |-> {i}]
               q == acc.pool
               r == Append(q, c)
    <3>1. next = Created(noted, role, i, plan)
      BY <2>2, <2>13 DEF Inserted
    <3>2. /\ next.base = acc.base /\ ~next.full
          /\ next.context = noted.context /\ next.pool = r
      BY <2>3, <2>5, <3>1, CreatedIs
    <3>3. /\ c.role = role /\ c.reason = plan.reason
          /\ c.stage = plan.stage /\ c.sentence = plan.sentence
      OBVIOUS
    <3> HIDE DEF c, q
    <3>4. q \in Seq(Candidate) BY <1>2 DEF q
    <3>5. /\ Len(r) = Len(q) + 1 /\ Len(q) \in Nat
          /\ DOMAIN r = 1..Len(r) /\ DOMAIN q = 1..Len(q)
          /\ r[Len(r)] = c /\ \A k \in DOMAIN q : r[k] = q[k]
      <4>1. /\ DOMAIN r = 1..(Len(q) + 1) /\ Len(r) = Len(q) + 1
            /\ \A k \in 1..(Len(q) + 1) :
                 r[k] = IF k = Len(q) + 1 THEN c ELSE q[k]
        BY <3>4
      <4> QED BY <3>4, <4>1
    <3> HIDE DEF r
    <3>6. \A k \in DOMAIN r : k = Len(r) \/ k \in DOMAIN q
      BY <3>5
    <3>7. GoesOn(q, r)
      BY <3>5 DEF GoesOn
    <3>8. Reasoned(r)
      BY <2>1, <2>8, <2>13, <3>3, <3>5, <3>6 DEF Reasoned, q
    <3>9. Len(r) \in DOMAIN r /\ SameKey(r[Len(r)], role, plan.sentence, plan.stage)
      BY <3>3, <3>5 DEF SameKey
    <3> QED BY <2>7, <3>2, <3>7, <3>8, <3>9 DEF plan, next, q
  <2> QED BY <2>9, <2>10, <2>11, <2>12, <2>13
<1> QED BY <1>3, <1>4

\* Materializations under way, each made from the one before.
Run(f, items, role) ==
  /\ Filling(f[0])
  /\ \A n \in 1..Len(items) : f[n] = Pulled(f[n - 1], role, items[n])

\* They go on from one another.
LEMMA RunGoesOn ==
  ASSUME ContentTypeOK, LearnerTypeOK, NEW role \in Roles,
         NEW items \in Seq(Items), NEW f, Run(f, items, role)
  PROVE  /\ \A n \in 0..Len(items) : Filling(f[n])
         /\ \A m, n \in 0..Len(items) : m <= n => Later(f[m], f[n])
<1> DEFINE N == Len(items)
           D == {a \in Acc : Filling(a)}
<1>1. N \in Nat /\ \A n \in 1..N : items[n] \in Items
  OBVIOUS
<1>2. \A n \in 1..N : Filling(f[n - 1]) => Filling(f[n]) /\ Later(f[n - 1], f[n])
  BY <1>1, PulledCovers DEF Run
<1>3. \A n \in 0..N : Filling(f[n])
  <2>1. f[0] \in D
    BY DEF Run, Filling, AccOK
  <2>2. \A n \in 1..N : f[n - 1] \in D => f[n] \in D
    BY <1>2 DEF Filling, AccOK
  <2> HIDE DEF D, N
  <2>3. \A n \in 0..N : f[n] \in D
    BY <1>1, <2>1, <2>2, RecursionStays
  <2> QED BY <2>3 DEF D, N
<1>4. ASSUME NEW m \in 0..N
      PROVE  \A n \in m..N : Later(f[m], f[n])
  <2> DEFINE E == {a \in Acc : AccOK(a) /\ Later(f[m], a)}
             M == N - m
             h == [n \in 0..M |-> f[m + n]]
  <2>1. M \in Nat /\ \A n \in 1..M : m + n \in 1..N /\ (m + n) - 1 = m + (n - 1)
    BY <1>1
  <2>2. h[0] \in E
    <3>1. Filling(f[m]) BY <1>3
    <3>2. h[0] = f[m] BY <1>1
    <3> QED BY <3>1, <3>2, LaterAndLater DEF Filling, AccOK
  <2>3. ASSUME NEW n \in 1..M, h[n - 1] \in E PROVE h[n] \in E
    <3>1. h[n - 1] = f[(m + n) - 1] /\ h[n] = f[m + n]
      BY <2>1
    <3>2. /\ m + n \in 1..N /\ (m + n) - 1 \in 0..N /\ m + n \in 0..N
      BY <1>1, <2>1
    <3>3. /\ Filling(f[(m + n) - 1]) /\ Filling(f[m + n])
          /\ Later(f[(m + n) - 1], f[m + n])
      BY <1>2, <1>3, <3>2
    <3>4. Filling(f[m]) BY <1>3
    <3>5. Later(f[m], f[(m + n) - 1]) BY <2>3, <3>1
    <3>6. Later(f[m], f[m + n])
      BY <3>3, <3>4, <3>5, LaterAndLater DEF Filling
    <3> QED BY <3>1, <3>3, <3>6 DEF Filling, AccOK
  <2> HIDE DEF E, h, M
  <2>4. \A n \in 0..M : h[n] \in E
    BY <2>1, <2>2, <2>3, RecursionStays
  <2>5. \A n \in m..N : n - m \in 0..M /\ h[n - m] = f[n]
    BY <1>1 DEF M, h
  <2> QED BY <2>4, <2>5 DEF E
<1> QED BY <1>1, <1>3, <1>4

\* What a due item may expect: a context is asked for, or there is a candidate
\* at its stage, unless nothing is ready or the item is stranded.
Stands(i, c) == /\ c.sentence \in Ready(i, {})
                /\ \/ c.role = "new"
                   \/ c.role = "review" /\ c.stage = learn[i].stage
Met(i, acc) ==
  \/ Ready(i, {}) = {}
  \/ Stranded(i)
  \/ \E g \in acc.context : g.item = i
  \/ \E k \in DOMAIN acc.pool : Stands(i, acc.pool[k])

\* What is met stays met as the materialization goes on.
LEMMA MetStays ==
  ASSUME NEW i, NEW a, NEW b, Met(i, a), GoesOn(a.pool, b.pool),
         a.context \subseteq b.context
  PROVE  Met(i, b)
<1>1. CASE \E k \in DOMAIN a.pool : Stands(i, a.pool[k])
  BY <1>1 DEF Met, Stands, GoesOn
<1>2. CASE ~\E k \in DOMAIN a.pool : Stands(i, a.pool[k])
  BY <1>2 DEF Met
<1> QED BY <1>1, <1>2

\* One plan for a due item meets it, unless the batch is full.
LEMMA DueIsMet ==
  ASSUME ContentTypeOK, LearnerTypeOK, NEW acc, Filling(acc), NEW i \in Items,
         Due(i), NEW role \in {"review", "new"},
         role = "review" <=> Exposures(i) # 0,
         ~Pulled(acc, role, i).full
  PROVE  Met(i, Pulled(acc, role, i))
<1> DEFINE anchor == acc.anchor[i]
           plan == PlanOf(role, i, anchor)
           next == Pulled(acc, role, i)
<1>1. /\ role \in Roles
      /\ plan.context \subseteq next.context
      /\ plan.sentence # 0 => \E k \in DOMAIN next.pool :
           SameKey(next.pool[k], role, plan.sentence, plan.stage)
  BY PulledCovers DEF Roles
<1>2. /\ anchor \in 0..MaxSentence
      /\ anchor # 0 => Anchoring(i, anchor)
      /\ \/ anchor = learn[i].anchor
         \/ learn[i].anchor = 0
         \/ Quarantined(learn[i].anchor)
  BY DEF Filling, AccOK, AnchorsOK
<1>3. PlanOK(i, anchor, plan)
  BY <1>1, <1>2, PlansAreOK
<1>4. CASE Ready(i, {}) = {}
  BY <1>4 DEF Met
<1>5. CASE Ready(i, {}) # {}
  <2>1. plan = IF role = "review" THEN ReviewPlan(i, anchor)
               ELSE NewPlan(i, anchor)
    BY DEF PlanOf
  <2>2. /\ role = "review" => plan.stage = learn[i].stage
        /\ \/ plan.sentence # 0
           \/ \E g \in plan.context : g.item = i
           \/ /\ learn[i].stage \in {Varied, NewContext}
              /\ anchor = 0 \/ Quarantined(anchor)
    <3>1. CASE role = "review"
      BY <1>2, <1>5, <2>1, <3>1, DueIsPlanned
    <3>2. CASE role # "review"
      BY <1>2, <1>5, <2>1, <3>2, NewIsPlanned
    <3> QED BY <3>1, <3>2
  <2> HIDE DEF plan, next, anchor
  <2>3. CASE plan.sentence # 0
    <3>1. plan.sentence \in Ready(i, {})
      BY <1>3, <2>3, FitIsReady DEF PlanOK
    <3>2. PICK k \in DOMAIN next.pool :
            SameKey(next.pool[k], role, plan.sentence, plan.stage)
      BY <1>1, <2>3
    <3>3. Stands(i, next.pool[k])
      BY <2>2, <3>1, <3>2 DEF SameKey, Stands
    <3> QED BY <3>3 DEF Met, next
  <2>4. CASE \E g \in plan.context : g.item = i
    BY <1>1, <2>4 DEF Met, next
  <2>5. CASE /\ learn[i].stage \in {Varied, NewContext}
             /\ anchor = 0 \/ Quarantined(anchor)
    BY <1>2, <2>5 DEF Met, Stranded
  <2> QED BY <2>2, <2>3, <2>4, <2>5
<1> QED BY <1>4, <1>5

\* A role goes on from the roles before it.
LEMMA RoleGoesOn ==
  ASSUME ContentTypeOK, LearnerTypeOK, NEW acc, Filling(acc), NEW role \in Roles,
         NEW lang
  PROVE  LET made == OfRole(acc, role, lang)
         IN  /\ Filling(made)
             /\ GoesOn(acc.pool, made.pool)
             /\ acc.context \subseteq made.context
<1> DEFINE items == PlannedItems(role, lang)
           made == OfRole(acc, role, lang)
<1>1. items \in Seq(Items) /\ Len(items) \in Nat
  BY PlannedAreItems
<1>2. PICK f : /\ f[0] = Begun(acc)
               /\ \A n \in 1..Len(items) :
                    f[n] = Pulled(f[n - 1], role, items[n])
               /\ made = f[Len(items)]
               /\ \A n \in 0..Len(items) : AccOK(f[n])
  <2>1. AccOK(acc) BY DEF Filling
  <2> QED BY <2>1, OfRoleRuns
<1>3. /\ Filling(f[0]) /\ f[0].pool = acc.pool
      /\ f[0].context = acc.context
  <2>1. acc.pool \in Seq(Candidate) /\ Len(acc.pool) \in Nat
    BY DEF Filling, AccOK, Acc
  <2>2. /\ f[0].pool = acc.pool /\ f[0].context = acc.context /\ ~f[0].full
        /\ f[0].base = Len(acc.pool)
    BY <1>2, <2>1 DEF Begun, Filling, AccOK, Acc
  <2>3. AccOK(f[0]) BY <1>1, <1>2
  <2> QED BY <2>1, <2>2, <2>3 DEF Filling
<1> HIDE DEF items, made
<1>4. Run(f, items, role)
  BY <1>2, <1>3 DEF Run
<1>5. Filling(made) /\ Later(f[0], made)
  <2>1. 0 \in 0..Len(items) /\ Len(items) \in 0..Len(items) /\ 0 <= Len(items)
    BY <1>1
  <2> QED BY <1>1, <1>2, <1>4, <2>1, RunGoesOn
<1> QED BY <1>3, <1>5 DEF Later, made

\* A role meets the due items it is about, unless it fills a batch.
LEMMA RoleMeets ==
  ASSUME ContentTypeOK, LearnerTypeOK, NEW acc, Filling(acc), NEW i \in Items,
         Due(i), NEW role \in {"review", "new"},
         role = "review" <=> Exposures(i) # 0,
         review[i].row, learn[i].active,
         Len(OfRole(acc, role, LangOf[i]).pool) < Len(acc.pool) + BatchSize
  PROVE  Met(i, OfRole(acc, role, LangOf[i]))
<1> DEFINE items == PlannedItems(role, LangOf[i])
           made == OfRole(acc, role, LangOf[i])
<1>1. items \in Seq(Items) /\ Len(items) \in Nat /\ role \in Roles
  BY PlannedAreItems DEF Roles
<1>2. PICK f : /\ f[0] = Begun(acc)
               /\ \A n \in 1..Len(items) :
                    f[n] = Pulled(f[n - 1], role, items[n])
               /\ made = f[Len(items)]
               /\ \A n \in 0..Len(items) : AccOK(f[n])
  <2>1. AccOK(acc) BY DEF Filling
  <2> QED BY <1>1, <2>1, OfRoleRuns
<1>3. PICK n \in 1..Len(items) : items[n] = i
  BY PlannedCovers
<1>4. acc.pool \in Seq(Candidate) /\ Len(acc.pool) \in Nat
  BY DEF Filling, AccOK, Acc
<1>5. Filling(f[0]) /\ f[0].base = Len(acc.pool)
  <2>1. /\ f[0].pool = acc.pool /\ f[0].context = acc.context /\ ~f[0].full
        /\ f[0].base = Len(acc.pool)
    BY <1>2, <1>4 DEF Begun, Filling, AccOK, Acc
  <2>2. AccOK(f[0]) BY <1>1, <1>2
  <2> QED BY <1>4, <2>1, <2>2 DEF Filling
<1>6. Len(made.pool) < Len(acc.pool) + BatchSize
  OBVIOUS
<1> HIDE DEF items, made
<1>7. Run(f, items, role)
  BY <1>2, <1>5 DEF Run
<1>8. /\ n \in 0..Len(items) /\ n - 1 \in 0..Len(items) /\ n <= Len(items)
      /\ 0 \in 0..Len(items) /\ 0 <= n /\ Len(items) \in 0..Len(items)
  BY <1>1, <1>3
<1>9. /\ Filling(f[n - 1]) /\ Filling(f[n]) /\ Later(f[0], f[n])
      /\ Later(f[n], made)
  BY <1>1, <1>2, <1>7, <1>8, RunGoesOn
<1>10. f[n] = Pulled(f[n - 1], role, i)
  BY <1>2, <1>3
<1>11. ~f[n].full
  <2>1. f[n].pool \in Seq(Candidate) /\ made.pool \in Seq(Candidate)
    BY <1>1, <1>2, <1>8 DEF AccOK, Acc
  <2>2. Len(f[n].pool) \in Nat /\ Len(made.pool) \in Nat /\ BatchSize \in Nat
    <3>1. \A q \in Seq(Candidate) : Len(q) \in Nat OBVIOUS
    <3>2. BatchSize \in Nat BY PolicyAssumption
    <3> QED BY <2>1, <3>1, <3>2
  <2>3. Len(f[n].pool) <= Len(made.pool) /\ f[n].base = Len(acc.pool)
    BY <1>5, <1>9 DEF Later, GoesOn
  <2> QED BY <1>4, <1>6, <1>9, <2>2, <2>3 DEF Filling
<1>12. Met(i, f[n])
  BY <1>9, <1>10, <1>11, DueIsMet
<1> QED BY <1>9, <1>12, MetStays DEF Later, made

\* Materialization meets the due items, unless it fills a batch.
LEMMA MaterializedMeets ==
  ASSUME ContentTypeOK, LearnerTypeOK, AnchorInv, pool \in Seq(Candidate),
         PoolIsShowable, Reasoned(pool), shown \in Seq(Presentation), NEW lang
  PROVE  LET made == Materialized(lang)
         IN  /\ Filling(made)
             /\ Len(made.pool) < Len(pool) + BatchSize =>
                  \A i \in Items : /\ LangOf[i] = lang /\ review[i].row
                                   /\ learn[i].active /\ Due(i)
                                   => Met(i, made)
<1> DEFINE one == OfRole(Unmade, "review", lang)
           two == OfRole(one, "new", lang)
           made == OfRole(two, "exploration", lang)
<1>1. Filling(Unmade) /\ Unmade.pool = pool
  <2>1. Unmade = [pool |-> pool, anchor |-> OldAnchors, explain |-> {},
                  context |-> {}, base |-> 0, full |-> FALSE]
    BY DEF Unmade, OldAnchors
  <2>2. AnchorsOK(OldAnchors) /\ OldAnchors \in [Items -> 0..MaxSentence]
    BY OldAnchorsAreOK DEF AnchorsOK
  <2>3. AccOK(Unmade)
    BY <2>1, <2>2 DEF AccOK, Acc, PoolIsShowable
  <2> QED BY <2>1, <2>3 DEF Filling, Staged
<1>2. /\ Filling(one) /\ GoesOn(pool, one.pool)
  BY <1>1, RoleGoesOn DEF Roles
<1>3. /\ Filling(two) /\ GoesOn(one.pool, two.pool)
      /\ one.context \subseteq two.context
  BY <1>2, RoleGoesOn DEF Roles
<1>4. /\ Filling(made) /\ GoesOn(two.pool, made.pool)
      /\ two.context \subseteq made.context
  BY <1>3, RoleGoesOn DEF Roles
<1>5. Materialized(lang) = made
  BY DEF Materialized
<1>6. /\ one.pool \in Seq(Candidate) /\ two.pool \in Seq(Candidate)
      /\ made.pool \in Seq(Candidate)
  BY <1>2, <1>3, <1>4 DEF Filling, AccOK, Acc
<1>7. /\ Len(pool) \in Nat /\ Len(one.pool) \in Nat /\ Len(two.pool) \in Nat
      /\ Len(made.pool) \in Nat /\ BatchSize \in Nat
  BY <1>6, PolicyAssumption
<1>8. /\ Len(pool) <= Len(one.pool) /\ Len(one.pool) <= Len(two.pool)
      /\ Len(two.pool) <= Len(made.pool)
  BY <1>2, <1>3, <1>4 DEF GoesOn
<1>9. ASSUME Len(made.pool) < Len(pool) + BatchSize,
             NEW i \in Items, LangOf[i] = lang, review[i].row,
             learn[i].active, Due(i)
      PROVE  Met(i, made)
  <2>1. CASE Exposures(i) # 0
    <3>1. Len(one.pool) < Len(Unmade.pool) + BatchSize
      BY <1>1, <1>7, <1>8, <1>9
    <3>2. Met(i, one)
      BY <1>1, <1>9, <2>1, <3>1, RoleMeets
    <3> QED BY <1>3, <1>4, <3>2, MetStays
  <2>2. CASE Exposures(i) = 0
    <3>1. Len(two.pool) < Len(one.pool) + BatchSize
      BY <1>7, <1>8, <1>9
    <3>2. Met(i, two)
      BY <1>2, <1>9, <2>2, <3>1, RoleMeets
    <3> QED BY <1>4, <3>2, MetStays
  <2> QED BY <2>1, <2>2
<1> HIDE DEF made
<1> QED BY <1>4, <1>5, <1>9

-----------------------------------------------------------------------------
(* When nothing is selected *)

\* A reason is chosen as long as one is available.
LEMMA ReasonIsChosen ==
  ASSUME NEW available, available \subseteq Reasons, available # {},
         NEW reviews, NEW reinforcements, NEW share
  PROVE  ChooseReviewReason(available, reviews, reinforcements, share)
           \in available
<1> DEFINE order == IF share * (reviews + 1) > 100 * reinforcements
                    THEN <<"context_repair", "reinforcement", "fsrs_due">>
                    ELSE <<"context_repair", "fsrs_due", "reinforcement">>
           usable == Filtered(order, available)
<1>1. /\ order \in Seq(Reasons) /\ Len(order) = 3
      /\ \A r \in Reasons : \E n \in 1..3 : order[n] = r
  <2>1. /\ order \in Seq(Reasons) /\ Len(order) = 3
        /\ order[1] = "context_repair"
        /\ \/ order[2] = "reinforcement" /\ order[3] = "fsrs_due"
           \/ order[2] = "fsrs_due" /\ order[3] = "reinforcement"
    <3> DEFINE a == <<"context_repair", "reinforcement", "fsrs_due">>
               b == <<"context_repair", "fsrs_due", "reinforcement">>
    <3>1. order = a \/ order = b
      OBVIOUS
    <3>2. a \in Seq(Reasons) /\ b \in Seq(Reasons) /\ Len(a) = 3 /\ Len(b) = 3
      BY DEF Reasons
    <3>3. /\ a[1] = "context_repair" /\ b[1] = "context_repair"
          /\ a[2] = "reinforcement" /\ b[2] = "fsrs_due"
          /\ a[3] = "fsrs_due" /\ b[3] = "reinforcement"
      OBVIOUS
    <3> HIDE DEF a, b, order
    <3> QED BY <3>1, <3>2, <3>3
  <2> HIDE DEF order
  <2>2. 1 \in 1..3 /\ 2 \in 1..3 /\ 3 \in 1..3
    OBVIOUS
  <2>3. ASSUME NEW r \in Reasons PROVE \E n \in 1..3 : order[n] = r
    <3>1. r = order[1] \/ r = order[2] \/ r = order[3]
      BY <2>1 DEF Reasons
    <3> QED BY <2>2, <3>1
  <2> QED BY <2>1, <2>3
<1>2. ChooseReviewReason(available, reviews, reinforcements, share)
        = IF usable = <<>> THEN NoReason ELSE usable[1]
  BY DEF ChooseReviewReason
<1> HIDE DEF order
<1>3. /\ usable \in Seq(Reasons)
      /\ Picked(order, available, usable, 3)
  BY <1>1, FilteredPicks
<1> HIDE DEF usable
<1>4. PICK h \in [1..Len(usable) -> 1..3] :
        /\ \A k \in 1..Len(usable) : /\ order[h[k]] \in available
                                     /\ usable[k] = order[h[k]]
        /\ \A m \in 1..3 : order[m] \in available
                           => \E k \in 1..Len(usable) : h[k] = m
  BY <1>3 DEF Picked
<1>5. PICK m \in 1..3 : order[m] \in available
  BY <1>1
<1>6. \E k \in 1..Len(usable) : h[k] = m
  BY <1>4, <1>5
<1>7. Len(usable) \in Nat /\ 1 \in 1..Len(usable) /\ usable # <<>>
  BY <1>3, <1>6
<1> QED BY <1>2, <1>4, <1>7

\* When no review is selected, none of this language has a usable target.
LEMMA NoReviewSelected ==
  ASSUME LearnerTypeOK, NEW q \in Seq(Candidate), Reasoned(q),
         SelectReview(q) = 0
  PROVE  \A k \in ReadyOf(q, "review") : Usable(q[k]) = {}
<1> DEFINE usable == {k \in ReadyOf(q, "review") : Usable(q[k]) # {}}
           available == {q[k].reason : k \in usable}
           reason == ChooseReviewReason(available, Presented("review"),
                                        Reinforced, Share)
           bucket == {k \in usable : q[k].reason = reason}
<1>1. SelectReview(q) = BestReview(q, bucket)
  BY DEF SelectReview
<1>2. SUFFICES ASSUME usable # {} PROVE FALSE
  OBVIOUS
<1>3. available \subseteq Reasons /\ available # {}
  BY <1>2 DEF ReadyOf, Reasoned
<1> HIDE DEF available
<1>4. reason \in available
  BY <1>3, ReasonIsChosen
<1> HIDE DEF reason
<1>5. bucket # {} /\ bucket \in SUBSET DOMAIN q /\ 0 \notin bucket
      /\ \A k \in bucket : Usable(q[k]) # {}
  <2>1. usable \in SUBSET DOMAIN q /\ \A k \in usable : Usable(q[k]) # {}
    BY DEF ReadyOf
  <2>2. \E k \in usable : q[k].reason = reason
    BY <1>4 DEF available
  <2>3. 0 \notin DOMAIN q
    OBVIOUS
  <2> HIDE DEF usable
  <2> QED BY <2>1, <2>2, <2>3
<1> HIDE DEF bucket
<1>6. BestReview(q, bucket) \in bucket
  BY <1>5, BestReviewIsIn
<1> QED BY <1>1, <1>5, <1>6

\* When no new candidate is selected, there is none of this language.
LEMMA NoNewSelected ==
  ASSUME NEW q \in Seq(Candidate), SelectNew(q) = 0
  PROVE  ReadyOf(q, "new") = {}
<1> DEFINE ready == ReadyOf(q, "new")
<1>1. ready \in SUBSET Nat /\ 0 \notin ready
  BY DEF ReadyOf
<1>2. SelectNew(q) = IF ready = {} THEN 0 ELSE Least(ready)
  BY DEF SelectNew
<1>3. SUFFICES ASSUME ready # {} PROVE FALSE
  OBVIOUS
<1> HIDE DEF ready
<1>4. Least(ready) \in ready
  BY <1>1, <1>3, LeastExists
<1> QED BY <1>1, <1>2, <1>3, <1>4

\* select_next finds nothing: what was materialized stays, with its gaps, and
\* none of it is selected.
LEMMA NothingIsFound ==
  ASSUME shown \in Seq(Presentation), SelectNext.pick = 0,
         NEW made, made = Materialized(session.lang), AccOK(made)
  PROVE  /\ SelectNext.pool = made.pool
         /\ SelectNext.context = made.context
         /\ SelectNext.explain = made.explain
         /\ \A role \in Roles : Select(made.pool, role) = 0
<1> DEFINE first == Select(pool, Ranked[1])
           selected == [n \in 1..3 |-> Select(made.pool, Ranked[n])]
           found == {n \in 1..3 : selected[n] # 0}
           again == ReusedAnchor(made.pool, made.anchor)
           choice == SelectNext
<1>1. choice = SelectFirst(Ranked, first)
  BY DEF SelectNext
<1>2. first = 0
  <2>1. SUFFICES ASSUME first # 0 PROVE FALSE
    OBVIOUS
  <2>2. choice = Kept(first) BY <1>1, <2>1 DEF SelectFirst
  <2> QED BY <2>1, <2>2 DEF Kept
<1>3. choice = SelectAfter(made, Ranked)
  BY <1>1, <1>2 DEF SelectFirst
<1>4. found = {}
  <2>1. SUFFICES ASSUME found # {} PROVE FALSE
    OBVIOUS
  <2>2. Least(found) \in found
    <3>1. found \in SUBSET Nat OBVIOUS
    <3> HIDE DEF found
    <3> QED BY <2>1, <3>1, LeastExists
  <2>3. choice = Refilled(made, made.pool, selected[Least(found)])
    BY <1>3, <2>1 DEF SelectAfter
  <2>4. choice.pick = selected[Least(found)]
    BY <2>3 DEF Refilled
  <2> QED BY <2>2, <2>4
<1>5. choice = Fallback(made, again)
  BY <1>3, <1>4 DEF SelectAfter
<1>6. made.pool \in Seq(Candidate) /\ Len(made.pool) \in Nat
  BY DEF AccOK, Acc
<1>7. again = <<>>
  <2>1. SUFFICES ASSUME again # <<>> PROVE FALSE
    OBVIOUS
  <2>2. choice.pick = Len(made.pool) + 1
    BY <1>5, <2>1 DEF Fallback, Refilled
  <2> QED BY <1>6, <2>2
<1>8. /\ choice.pool = made.pool \o again
      /\ choice.context = made.context /\ choice.explain = made.explain
  <2> HIDE DEF again, choice
  <2> QED BY <1>5 DEF Fallback, Refilled
<1>9. choice.pool = made.pool
  BY <1>6, <1>7, <1>8
<1>10. \A role \in Roles : Select(made.pool, role) = 0
  <2> TAKE role \in Roles
  <2>1. PICK n \in 1..3 : Ranked[n] = role BY RankedAreRoles
  <2>2. selected[n] = 0 BY <1>4
  <2> QED BY <2>1, <2>2
<1> QED BY <1>8, <1>9, <1>10

-----------------------------------------------------------------------------
(* What is asked for *)

\* Every job is asked for, now or earlier on the day.
LEMMA AskCovers ==
  ASSUME NEW jobs \in Seq(Job), Ask(jobs)
  PROVE  \A n \in DOMAIN jobs : JobKey(jobs[n]) \in asked'
<1> DEFINE keep == {j \in ToSet(jobs) : JobKey(j) \notin asked}
           new == Filtered(jobs, keep)
<1>1. asked' = asked \cup {JobKey(new[n]) : n \in DOMAIN new}
  BY DEF Ask
<1> HIDE DEF keep
<1>2. new \in Seq(Job) /\ Picked(jobs, keep, new, Len(jobs))
  BY FilteredPicks
<1> HIDE DEF new
<1>3. ASSUME NEW n \in DOMAIN jobs, JobKey(jobs[n]) \notin asked
      PROVE  \E k \in DOMAIN new : new[k] = jobs[n]
  <2>1. jobs[n] \in keep
    BY <1>3 DEF keep, ToSet
  <2>2. n \in 1..Len(jobs) /\ DOMAIN new = 1..Len(new)
    BY <1>2
  <2> QED BY <1>2, <2>1, <2>2 DEF Picked
<1> QED BY <1>1, <1>3

\* There is a job for every gap, at the stage that its item is at.
LEMMA GapIsAsked ==
  ASSUME NEW found, found.context \subseteq Gap, Staged(found.context),
         found.explain \subseteq Sentences,
         NEW lang, NEW i, \E g \in found.context : g.item = i
  PROVE  \E n \in DOMAIN GapJobs(found, lang) :
            JobKey(GapJobs(found, lang)[n]) = <<"context", i, learn[i].stage>>
<1> DEFINE R == {st \in Sentences \X Sentences : st[1] < st[2]}
           explain == Sorted(found.explain, R)
           T == {g.item : g \in found.context}
           items == Sorted(T, ById)
           gap == [n \in DOMAIN items |->
                     CHOOSE g \in found.context : g.item = items[n]]
           one == [n \in DOMAIN explain |->
                     [kind |-> "explain", sentence |-> explain[n]]]
           two == [n \in DOMAIN items |->
                     [kind |-> "context", item |-> items[n],
                      stage |-> gap[n].stage, anchor |-> gap[n].anchor,
                      lang |-> lang]]
<1>1. GapJobs(found, lang) = one \o two
  BY DEF GapJobs
<1>2. explain \in Seq(found.explain)
  <2>1. IsFiniteSet(found.explain)
    <3>1. IsFiniteSet(Sentences)
      BY SentencesAreNumbers, FS_Interval DEF Sentences
    <3> QED BY <3>1, FS_Subset
  <2>2. Orders(R, found.explain)
    <3>1. \A s \in found.explain : s \in Nat BY SentencesAreNumbers
    <3>2. \A s, t \in found.explain : <<s, t>> \in R <=> s < t OBVIOUS
    <3> HIDE DEF R
    <3> QED BY <3>1, <3>2 DEF Orders
  <2> HIDE DEF R
  <2> QED BY <2>1, <2>2, SortedIs
<1>3. T \in SUBSET Items /\ i \in T
  BY DEF Gap
<1>4. items \in Seq(T) /\ \E n \in DOMAIN items : items[n] = i
  <2> HIDE DEF T
  <2>1. IsFiniteSet(T) /\ Orders(ById, T)
    BY <1>3, ItemsFinite, IdOrder
  <2>2. \A x \in T : <<x, x>> \notin ById
    BY <1>3, ItemsAssumption DEF ById
  <2> QED BY <1>3, <2>1, <2>2, SortedIs, SortedCovers
<1>5. PICK n \in DOMAIN items : items[n] = i
  BY <1>4
<1>6. gap[n] \in found.context /\ gap[n].item = i
  BY <1>3, <1>5
<1>7. gap[n].stage = learn[i].stage
  BY <1>6 DEF Staged
<1>8. JobKey(two[n]) = <<"context", i, learn[i].stage>>
  <2>1. two[n] = [kind |-> "context", item |-> items[n],
                  stage |-> gap[n].stage, anchor |-> gap[n].anchor,
                  lang |-> lang]
    OBVIOUS
  <2> HIDE DEF two, gap, items
  <2> QED BY <1>5, <1>7, <2>1 DEF JobKey
<1>9. /\ DOMAIN one = 1..Len(explain) /\ Len(explain) \in Nat
      /\ DOMAIN two = 1..Len(items) /\ Len(items) \in Nat
  BY <1>2, <1>4
<1> HIDE DEF one, two, explain, items
<1>10. /\ Len(one) = Len(explain) /\ Len(two) = Len(items)
  BY <1>9
<1>11. /\ Len(one) + n \in DOMAIN (one \o two)
       /\ (one \o two)[Len(one) + n] = two[n]
  <2>1. DOMAIN (one \o two) = 1..(Len(one) + Len(two)) 
    BY <1>9, <1>10
  <2>2. n \in 1..Len(two) /\ n \in Nat
    BY <1>5, <1>9, <1>10
  <2> QED BY <1>9, <1>10, <2>1, <2>2
<1> QED BY <1>1, <1>8, <1>11
=============================================================================
