------------------------- MODULE LearningLoopProofs -------------------------
(***************************************************************************)
(* LearningLoop, for any items, corpus, policy and bounds. First what is   *)
(* on record: the types, the candidates that can be shown, the anchors and *)
(* the jobs that wait. Then what the presentations explain: who has a      *)
(* schedule, what the cached counts are, how an item came to its stage and *)
(* where probes were put.                                                  *)
(*                                                                         *)
(* RecordInv is inductive. ContextsAreNew needs the anchors of items to be *)
(* in sentences of theirs (AnchorInv), a pool that can be shown needs      *)
(* content that only grows (ContentStep), and what is shown must have been *)
(* part of such a pool (ShownInv).                                         *)
(*                                                                         *)
(* For the history every step is seen as one of five (HistoryStep): nothing*)
(* happens on a screen, a candidate is shown, something is said, a screen  *)
(* is completed, a screen is flagged. HistoryInv adds to the record that   *)
(* only the last screen of a session is open (OrderInv) and has left no    *)
(* trace (FreshInv), and proves each property from those.                  *)
(*                                                                         *)
(* Last, what is asked for when there is nothing to show. LearnerInv adds  *)
(* to the record that what has a schedule is being learnt, so that a plan  *)
(* is made of it, and that reviews have reasons, so that one is selected   *)
(* if any can be.                                                          *)
(***************************************************************************)
EXTENDS LearningLoopPlans

-----------------------------------------------------------------------------
(* The invariant: what is on record can be relied on *)

\* An open session has a number and a language.
SessionInv ==
  session.open => session.id \in 1..MaxSession /\ session.lang \in Langs

\* Nothing refers to a sentence that does not exist yet.
BlankInv ==
  \A s \in Sentences : sentences[s].status = "unborn" => sentences[s].items = {}

\* What was shown is a sentence with its explanations, of its targets.
ShownInv ==
  \A p \in DOMAIN shown :
    /\ sentences[shown[p].sentence].status # "unborn"
    /\ sentences[shown[p].sentence].explained
    /\ shown[p].targets \subseteq sentences[shown[p].sentence].items
    /\ shown[p].probe \in shown[p].targets \cup {0}

RecordInv == /\ TypeOK
             /\ SessionInv
             /\ BlankInv
             /\ ShownInv
             /\ AnchorInv
             /\ PoolIsShowable
             /\ ContextsAreNew

-----------------------------------------------------------------------------
(* Content only grows *)

\* A sentence that exists keeps its items and its explanations.
Grown == \A s \in Sentences : sentences[s].status # "unborn" =>
           /\ sentences'[s].status # "unborn"
           /\ sentences'[s].items = sentences[s].items
           /\ sentences[s].explained => sentences'[s].explained

\* And while it is not quarantined it can still be shown.
StillReady(s) == sentences[s].status = "validated" /\ sentences[s].explained =>
             /\ sentences'[s].status = "validated"
             /\ sentences'[s].explained
             /\ sentences'[s].items = sentences[s].items

ContentStep == /\ ContentTypeOK' /\ BlankInv'
               /\ Grown

\* ContextsAreNew says it of every pending job.
LEMMA JobsSplit ==
  ASSUME TypeOK
  PROVE  ContextsAreNew <=> pending \in Seq({j \in Job : JobOK(j)})
<1>1. pending \in Seq(Job) BY DEF TypeOK
<1>2. \A n \in DOMAIN pending : pending[n] \in Job BY <1>1
<1>3. ASSUME NEW n \in DOMAIN pending
      PROVE  JobOK(pending[n]) <=>
               LET job == pending[n] IN job.kind = "context" =>
                 /\ job.stage \in {Varied, NewContext}
                 /\ job.item \in sentences[job.anchor].items
  <2> DEFINE j == pending[n]
  <2>1. j \in Job BY <1>2
  <2> HIDE DEF j
  <2>2. CASE j.kind = "context"
    <3>1. j \in [kind : {"context"}, item : Items, stage : Stages,
                 anchor : Sentences, lang : Langs]
      BY <2>1, <2>2 DEF Job
    <3>2. [item |-> j.item, stage |-> j.stage, anchor |-> j.anchor] \in Gap
      BY <3>1 DEF Gap
    <3> QED BY <2>1, <2>2, <3>2 DEF JobOK, GapOK, j
  <2>3. CASE j.kind # "context"
    BY <2>1, <2>3 DEF JobOK, j
  <2> QED BY <2>2, <2>3
<1>4. ContextsAreNew <=> \A n \in DOMAIN pending : JobOK(pending[n])
  BY <1>3 DEF ContextsAreNew
<1>5. pending \in Seq({j \in Job : JobOK(j)})
        <=> \A n \in DOMAIN pending : JobOK(pending[n])
  <2>1. ASSUME \A n \in DOMAIN pending : JobOK(pending[n])
        PROVE  pending \in Seq({j \in Job : JobOK(j)})
    <3> DEFINE Good == {j \in Job : JobOK(j)}
    <3>1. \A n \in DOMAIN pending : pending[n] \in Good BY <1>2, <2>1
    <3> HIDE DEF Good
    <3>2. pending \in [1..Len(pending) -> Good] BY <1>1, <3>1
    <3>3. Len(pending) \in Nat BY <1>1
    <3> QED BY <3>2, <3>3 DEF Good
  <2>2. ASSUME pending \in Seq({j \in Job : JobOK(j)}), NEW n \in DOMAIN pending
        PROVE  JobOK(pending[n])
    BY <2>2
  <2> QED BY <2>1, <2>2
<1> QED BY <1>4, <1>5

\* What was true of existing sentences stays true when content grows.
LEMMA ContentGrows ==
  ASSUME ContentTypeOK, BlankInv, Grown
  PROVE  /\ \A i, s : Anchoring(i, s) => Anchoring(i, s)'
         /\ \A g : GapOK(g) => GapOK(g)'
         /\ \A j : JobOK(j) => JobOK(j)'
<1>1. \A i, s : Anchoring(i, s) => Anchoring(i, s)'
  BY DEF Anchoring, Grown
<1>2. \A g : GapOK(g) => GapOK(g)'
  <2> SUFFICES ASSUME NEW g, GapOK(g) PROVE GapOK(g)'
    OBVIOUS
  <2>1. g.anchor \in Sentences /\ g.item \in sentences[g.anchor].items
    BY DEF GapOK, Gap
  <2>2. sentences'[g.anchor].items = sentences[g.anchor].items
    BY <2>1 DEF BlankInv, Grown
  <2> QED BY <2>1, <2>2 DEF GapOK
<1>3. \A j : JobOK(j) => JobOK(j)'
  BY <1>2 DEF JobOK
<1> QED BY <1>1, <1>2, <1>3

\* A step that leaves the sentences alone keeps what can be shown.
LEMMA SentencesStay ==
  ASSUME ContentTypeOK, BlankInv, sentences' = sentences
  PROVE  /\ ContentStep
         /\ \A s \in Sentences : StillReady(s)
         /\ \A q : Showable(q) => Showable(q)'
  BY DEF ContentStep, ContentTypeOK, BlankInv, Grown, StillReady, Showable

\* A presentation and its fields.
LEMMA ShownTyped ==
  ASSUME shown \in Seq(Presentation), NEW p \in DOMAIN shown
  PROVE  /\ shown[p] \in Presentation
         /\ shown[p].role \in Roles /\ shown[p].stage \in Stages
         /\ shown[p].reason \in Reasons \cup {NoReason}
         /\ shown[p].sentence \in Sentences
         /\ shown[p].targets \in SUBSET Items
         /\ shown[p].session \in 1..MaxSession
         /\ shown[p].said \in [Items -> Signals \cup {NoSignal}]
         /\ shown[p].probe \in Items \cup {0}
         /\ shown[p].closed \in BOOLEAN /\ shown[p].flagged \in BOOLEAN
         /\ shown[p].exposed \in SUBSET Items
         /\ shown[p].done \in 0..MaxTick
<1>1. shown[p] \in Presentation OBVIOUS
<1> QED BY <1>1 DEF Presentation

\* What is ready stays ready when its sentence is kept.
LEMMA ShowableStays ==
  ASSUME NEW q \in Seq(Candidate), Showable(q),
         \A k \in DOMAIN q : StillReady(q[k].sentence)
  PROVE  Showable(q)'
  BY DEF Showable, StillReady

\* What was shown keeps its targets and its explanations when content grows.
LEMMA ShownStays ==
  ASSUME TypeOK, ShownInv, Grown, shown' \in Seq(Presentation),
         DOMAIN shown' = DOMAIN shown,
         \A p \in DOMAIN shown : /\ shown'[p].sentence = shown[p].sentence
                                 /\ shown'[p].targets = shown[p].targets
                                 /\ shown'[p].probe = shown[p].probe
  PROVE  ShownInv'
<1>1. \A p \in DOMAIN shown : shown[p].sentence \in Sentences
  <2>1. shown \in Seq(Presentation) BY DEF TypeOK
  <2> QED BY <2>1, ShownTyped
<1> QED BY <1>1 DEF ShownInv, Grown

-----------------------------------------------------------------------------
(* The rows of an item *)

State == [active : BOOLEAN, anchor : 0..MaxSentence, stage : Stages,
          silent : 0..Passive, asked : 0..MaxTick]
Row == [row : BOOLEAN, next : Nat, hidden : Nat, count : Nat]

\* The types of the rows of an item.
LEMMA LearnerTypes ==
  LearnerTypeOK <=> /\ learn \in [Items -> State]
                    /\ mastery \in [Items -> 0..3]
                    /\ review \in [Items -> Row]
  BY DEF LearnerTypeOK, State, Row

\* Anchors are all that materialization changes of an item.
LEMMA AnchoredOnly ==
  ASSUME learn \in [Items -> State], NEW found, AnchorsOK(found.anchor),
         learn' = Anchored(found)
  PROVE  /\ learn' \in [Items -> State]
         /\ \A i \in Items : /\ learn'[i].anchor = found.anchor[i]
                             /\ learn'[i].active = learn[i].active
                             /\ learn'[i].stage = learn[i].stage
<1> DEFINE anchors == found.anchor
<1>1. learn' = [i \in Items |-> [learn[i] EXCEPT !.anchor = anchors[i]]]
  BY DEF Anchored
<1>2. \A i \in Items : anchors[i] \in 0..MaxSentence
  BY DEF AnchorsOK
<1> HIDE DEF anchors
<1>3. ASSUME NEW i \in Items
      PROVE  /\ learn'[i] \in State
             /\ learn'[i].anchor = anchors[i]
             /\ learn'[i].active = learn[i].active
             /\ learn'[i].stage = learn[i].stage
  <2>1. learn'[i] = [learn[i] EXCEPT !.anchor = anchors[i]] BY <1>1
  <2>2. learn[i] \in State BY DEF State
  <2> QED BY <1>2, <2>1, <2>2 DEF State
<1>4. DOMAIN learn' = Items BY <1>1
<1>5. learn' = [i \in Items |-> learn'[i]] BY <1>1
<1>6. learn' \in [Items -> State]
  BY <1>3, <1>5
<1> QED BY <1>3, <1>6 DEF anchors

\* Anchors that materialization resolved are anchors of the next state.
LEMMA AnchorsStay ==
  ASSUME ContentTypeOK, BlankInv, ContentStep, NEW found,
         AnchorsOK(found.anchor), \A i \in Items : learn'[i].anchor = found.anchor[i]
  PROVE  AnchorInv'
<1>1. \A i \in Items : found.anchor[i] # 0 => Anchoring(i, found.anchor[i])'
  BY ContentGrows DEF AnchorsOK, ContentStep
<1> QED BY <1>1 DEF AnchorInv, Anchoring

\* Anchors that stay as they are go on being anchors.
LEMMA SameAnchorsStay ==
  ASSUME ContentTypeOK, BlankInv, ContentStep, AnchorInv,
         \A i \in Items : learn'[i].anchor = learn[i].anchor
  PROVE  AnchorInv'
<1>1. \A i \in Items : learn[i].anchor # 0 => Anchoring(i, learn[i].anchor)'
  BY ContentGrows DEF AnchorInv, ContentStep
<1> QED BY <1>1 DEF AnchorInv, Anchoring

\* The jobs that wait go on waiting for the same contexts.
LEMMA JobsStay ==
  ASSUME ContentTypeOK, BlankInv, ContentStep,
         NEW jobs \in Seq({j \in Job : JobOK(j)})
  PROVE  jobs \in Seq({j \in Job : JobOK(j)'})
<1>1. {j \in Job : JobOK(j)} \subseteq {j \in Job : JobOK(j)'}
  BY ContentGrows DEF ContentStep
<1> DEFINE A == {j \in Job : JobOK(j)}
           B == {j \in Job : JobOK(j)'}
<1>2. A \subseteq B /\ jobs \in Seq(A) BY <1>1
<1> HIDE DEF A, B
<1>3. jobs \in Seq(B) BY <1>2
<1> QED BY <1>3 DEF B

-----------------------------------------------------------------------------
(* Starting, resuming and the next presentation *)

\* What the type invariant says, one row after another.
LEMMA Typed ==
  TypeOK <=> /\ now \in Ticks
             /\ ContentTypeOK
             /\ learn \in [Items -> State]
             /\ mastery \in [Items -> 0..3]
             /\ review \in [Items -> Row]
             /\ pool \in Seq(Candidate)
             /\ shown \in Seq(Presentation)
             /\ session \in [id : 0..MaxSession, open : BOOLEAN,
                             lang : Langs \cup {""}, stale : BOOLEAN]
             /\ asked \subseteq {JobKey(j) : j \in Job}
             /\ pending \in Seq(Job)
  BY LearnerTypes DEF TypeOK

\* The same of the next state.
LEMMA TypedNext ==
  ASSUME now' \in Ticks, ContentTypeOK',
         learn' \in [Items -> State], mastery' \in [Items -> 0..3],
         review' \in [Items -> Row], pool' \in Seq(Candidate),
         shown' \in Seq(Presentation),
         session' \in [id : 0..MaxSession, open : BOOLEAN,
                       lang : Langs \cup {""}, stale : BOOLEAN],
         asked' \subseteq {JobKey(j) : j \in Job}, pending' \in Seq(Job)
  PROVE  TypeOK'
  BY DEF TypeOK, LearnerTypeOK, State, Row

JobsOK == pending \in Seq({j \in Job : JobOK(j)})

\* ContextsAreNew, of the type of the pending jobs.
LEMMA JobsNew == TypeOK => (ContextsAreNew <=> JobsOK)
  BY JobsSplit DEF JobsOK

\* The same of the next state.
LEMMA JobsNewNext ==
  ASSUME TypeOK', pending' \in Seq({j \in Job : JobOK(j)'})
  PROVE  ContextsAreNew'
<1>1. TypeOK' => (ContextsAreNew' <=> JobsOK')
  BY JobsNew, PTL
<1> QED BY <1>1 DEF JobsOK

\* Asking for more keeps the pending jobs in order.
LEMMA AskedNext ==
  ASSUME TypeOK, BlankInv, ContextsAreNew, ContentStep,
         NEW jobs \in Seq({j \in Job : JobOK(j)}), Ask(jobs)
  PROVE  /\ asked' \subseteq {JobKey(j) : j \in Job}
         /\ pending' \in Seq(Job)
         /\ pending' \in Seq({j \in Job : JobOK(j)'})
<1>1. pending \in Seq({j \in Job : JobOK(j)})
  BY JobsSplit
<1>2. asked \subseteq {JobKey(j) : j \in Job} /\ ContentTypeOK
  BY DEF TypeOK
<1>3. /\ pending' \in Seq({j \in Job : JobOK(j)})
      /\ asked' \subseteq {JobKey(j) : j \in Job}
  BY <1>1, <1>2, AskIsOK
<1>4. pending' \in Seq(Job)
  <2> DEFINE A == {j \in Job : JobOK(j)}
  <2>1. A \subseteq Job /\ pending' \in Seq(A) BY <1>3
  <2> HIDE DEF A
  <2> QED BY <2>1
<1>5. pending' \in Seq({j \in Job : JobOK(j)'})
  BY <1>2, <1>3, JobsStay
<1> QED BY <1>3, <1>4, <1>5

\* Starting or resuming a session keeps the record.
LEMMA RecordStart ==
  ASSUME RecordInv, NEW lang \in Langs, Start(lang) \/ Resume(lang)
  PROVE  RecordInv'
<1> DEFINE found == Materialized(lang)
<1>1. AccOK(found)
  BY MaterializedIsOK DEF RecordInv, TypeOK
<1>2. /\ pool' = found.pool /\ learn' = Anchored(found)
      /\ Ask(GapJobs(found, lang))
      /\ UNCHANGED <<now, sentences, mastery, review, shown>>
      /\ \/ session' = session
         \/ /\ session.id < MaxSession
            /\ session' = [id |-> session.id + 1, open |-> TRUE, lang |-> lang,
                           stale |-> FALSE]
  BY DEF Start, Resume
<1> HIDE DEF found
<1>3. /\ TypeOK /\ ContentTypeOK /\ BlankInv
      /\ session \in [id : 0..MaxSession, open : BOOLEAN,
                      lang : Langs \cup {""}, stale : BOOLEAN]
  BY DEF RecordInv, TypeOK
<1>0. /\ now \in Ticks
      /\ learn \in [Items -> State] /\ mastery \in [Items -> 0..3]
      /\ review \in [Items -> Row] /\ shown \in Seq(Presentation)
  BY <1>3, Typed
<1>4. /\ ContentStep /\ \A q : Showable(q) => Showable(q)'
  BY <1>2, <1>3, SentencesStay
<1>5. /\ found.pool \in Seq(Candidate) /\ Showable(found.pool)
      /\ AnchorsOK(found.anchor)
      /\ found.explain \subseteq Sentences /\ found.context \subseteq Gap
      /\ \A g \in found.context : GapOK(g)
  BY <1>1 DEF AccOK, Acc
<1>6. /\ learn' \in [Items -> State]
      /\ \A i \in Items : learn'[i].anchor = found.anchor[i]
  BY <1>0, <1>2, <1>5, AnchoredOnly
<1>7. AnchorInv'
  BY <1>3, <1>4, <1>5, <1>6, AnchorsStay
<1>8. GapJobs(found, lang) \in Seq({j \in Job : JobOK(j)})
  BY <1>5, GapJobsAreOK
<1>9. /\ asked' \subseteq {JobKey(j) : j \in Job}
      /\ pending' \in Seq(Job) /\ pending' \in Seq({j \in Job : JobOK(j)'})
  BY <1>2, <1>3, <1>4, <1>8, AskedNext DEF RecordInv
<1>11. /\ session' \in [id : 0..MaxSession, open : BOOLEAN,
                        lang : Langs \cup {""}, stale : BOOLEAN]
       /\ SessionInv'
  <2>1. CASE session' = session
    BY <1>3, <2>1 DEF RecordInv, SessionInv
  <2>2. CASE /\ session.id < MaxSession
             /\ session' = [id |-> session.id + 1, open |-> TRUE, lang |-> lang,
                            stale |-> FALSE]
    <3>1. MaxSession \in Nat /\ session.id \in 0..MaxSession
      BY <1>3, BoundsAssumption
    <3>2. session.id + 1 \in 1..MaxSession
      BY <2>2, <3>1
    <3>3. session.id + 1 \in 0..MaxSession
      BY <3>1, <3>2
    <3> QED BY <2>2, <3>2, <3>3 DEF SessionInv
  <2> QED BY <1>2, <2>1, <2>2
<1>12. TypeOK'
  BY <1>0, <1>2, <1>4, <1>5, <1>6, <1>9, <1>11, TypedNext
     DEF ContentStep
<1>13. PoolIsShowable'
  BY <1>2, <1>4, <1>5 DEF PoolIsShowable
<1>14. ShownInv'
  BY <1>2 DEF ShownInv, RecordInv
<1>15. ContextsAreNew'
  BY <1>9, <1>12, JobsNewNext
<1> QED BY <1>4, <1>7, <1>11, <1>12, <1>13, <1>14, <1>15 DEF RecordInv, ContentStep

\* A part of a pool that can be shown can be shown.
LEMMA PartIsShowable ==
  ASSUME NEW q \in Seq(Candidate), Showable(q), NEW r \in Seq(Candidate),
         NEW h \in [DOMAIN r -> DOMAIN q],
         \A k \in DOMAIN r : r[k] = q[h[k]],
         \A k, l \in DOMAIN r : h[k] = h[l] => k = l
  PROVE  Showable(r)
<1>1. \A k, l \in DOMAIN r :
        SameKey(r[l], r[k].role, r[k].sentence, r[k].stage) => k = l
  <2> SUFFICES ASSUME NEW k \in DOMAIN r, NEW l \in DOMAIN r,
                      SameKey(r[l], r[k].role, r[k].sentence, r[k].stage)
               PROVE  k = l
    OBVIOUS
  <2>1. h[k] \in DOMAIN q /\ h[l] \in DOMAIN q /\ r[k] = q[h[k]] /\ r[l] = q[h[l]]
    OBVIOUS
  <2>2. h[k] = h[l] BY <2>1 DEF Showable
  <2> QED BY <2>2
<1>2. \A k \in DOMAIN r :
        LET s == sentences[r[k].sentence]
        IN  /\ s.status = "validated" /\ s.explained
            /\ r[k].targets # {} /\ r[k].targets \subseteq s.items
            /\ Cardinality(r[k].targets) <= MaxTargets
  <2> TAKE k \in DOMAIN r
  <2>1. h[k] \in DOMAIN q /\ r[k] = q[h[k]] OBVIOUS
  <2> QED BY <2>1 DEF Showable
<1> QED BY <1>1, <1>2 DEF Showable

\* Removing an element moves those behind it up by one.
LEMMA RemovedIs ==
  ASSUME NEW q \in Seq(Candidate), NEW n \in DOMAIN q
  PROVE  LET r == RemoveAt(q, n)
         IN  /\ r \in Seq(Candidate)
             /\ Len(r) = Len(q) - 1 /\ DOMAIN r = 1..(Len(q) - 1)
             /\ \A k \in 1..(Len(q) - 1) : r[k] = IF k < n THEN q[k] ELSE q[k + 1]
<1> DEFINE a == SubSeq(q, 1, n - 1)
           b == SubSeq(q, n + 1, Len(q))
           r == RemoveAt(q, n)
<1>0. /\ Len(q) \in Nat /\ DOMAIN q = 1..Len(q) /\ n \in 1..Len(q)
  OBVIOUS
<1>1. r = a \o b BY DEF RemoveAt
<1>2. /\ a \in Seq(Candidate) /\ Len(a) = n - 1
      /\ \A k \in 1..(n - 1) : a[k] = q[k]
  BY <1>0
<1>3. /\ b \in Seq(Candidate) /\ Len(b) = Len(q) - n
      /\ \A k \in 1..(Len(q) - n) : b[k] = q[n + k]
  BY <1>0
<1> HIDE DEF a, b, r
<1>4. r \in Seq(Candidate) /\ Len(r) = Len(q) - 1
  <2>1. r \in Seq(Candidate) /\ Len(r) = Len(a) + Len(b)
    BY <1>1, <1>2, <1>3
  <2> QED BY <1>0, <1>2, <1>3, <2>1
<1>5. \A k \in 1..(Len(q) - 1) : r[k] = IF k < n THEN q[k] ELSE q[k + 1]
  <2> TAKE k \in 1..(Len(q) - 1)
  <2>1. CASE k < n
    BY <1>0, <1>1, <1>2, <1>3, <2>1
  <2>2. CASE ~(k < n)
    <3>1. r[k] = b[k - (n - 1)] BY <1>0, <1>1, <1>2, <1>3, <2>2
    <3>2. k - (n - 1) \in 1..(Len(q) - n) /\ n + (k - (n - 1)) = k + 1
      BY <1>0, <2>2
    <3> QED BY <1>3, <2>2, <3>1, <3>2
  <2> QED BY <2>1, <2>2
<1> QED BY <1>0, <1>4, <1>5 DEF r

\* A pool without one of its candidates can be shown (the one just selected).
LEMMA RemovedIsShowable ==
  ASSUME NEW q \in Seq(Candidate), Showable(q), NEW n \in DOMAIN q
  PROVE  RemoveAt(q, n) \in Seq(Candidate) /\ Showable(RemoveAt(q, n))
<1> DEFINE r == RemoveAt(q, n)
           h == [k \in DOMAIN r |-> IF k < n THEN k ELSE k + 1]
<1>1. /\ Len(q) \in Nat /\ DOMAIN q = 1..Len(q) /\ n \in 1..Len(q)
  OBVIOUS
<1>2. /\ r \in Seq(Candidate) /\ Len(r) = Len(q) - 1 /\ DOMAIN r = 1..(Len(q) - 1)
      /\ \A k \in 1..(Len(q) - 1) : r[k] = IF k < n THEN q[k] ELSE q[k + 1]
  BY RemovedIs
<1> HIDE DEF r
<1>3. /\ h \in [DOMAIN r -> DOMAIN q]
      /\ \A k \in DOMAIN r : r[k] = q[h[k]]
      /\ \A k, l \in DOMAIN r : h[k] = h[l] => k = l
  BY <1>1, <1>2
<1> HIDE DEF h
<1> QED BY <1>2, <1>3, PartIsShowable DEF r

\* A pool without some of its candidates can be shown (those of a flag).
LEMMA FilteredIsShowable ==
  ASSUME NEW q \in Seq(Candidate), Showable(q), NEW keep
  PROVE  Filtered(q, keep) \in Seq(Candidate) /\ Showable(Filtered(q, keep))
<1> DEFINE r == Filtered(q, keep)
<1>1. r \in Seq(Candidate) /\ Picked(q, keep, r, Len(q))
  BY FilteredPicks
<1> HIDE DEF r
<1>2. PICK h \in [1..Len(r) -> 1..Len(q)] :
         /\ \A k \in 1..Len(r) : r[k] = q[h[k]]
         /\ \A k, l \in 1..Len(r) : k < l => h[k] < h[l]
  BY <1>1 DEF Picked
<1>3. DOMAIN r = 1..Len(r) /\ DOMAIN q = 1..Len(q) /\ Len(r) \in Nat /\ Len(q) \in Nat
  BY <1>1
<1>4. \A k, l \in DOMAIN r : h[k] = h[l] => k = l
  BY <1>2, <1>3
<1>5. h \in [DOMAIN r -> DOMAIN q] /\ \A k \in DOMAIN r : r[k] = q[h[k]]
  BY <1>2, <1>3
<1>6. Showable(r)
  BY <1>1, <1>4, <1>5, PartIsShowable
<1> QED BY <1>1, <1>6 DEF r

\* A probe is about a target nothing was said about in this session.
LEMMA ProbeIsAskable ==
  ASSUME learn \in [Items -> State], mastery \in [Items -> 0..3],
         NEW targets \in SUBSET Items
  PROVE  \/ ProbeFor(targets) = 0
         \/ /\ ProbeFor(targets) \in targets
            /\ Askable(ProbeFor(targets))
            /\ PacingAllowsProbe
<1> DEFINE askable == {i \in targets : Askable(i)}
           rank == [k \in Items |-> ProbePriority(mastery[k])]
           quiet == [k \in Items |-> IF learn[k].silent >= Passive THEN 0 ELSE 1]
           Before(i, j) == \/ rank[i] < rank[j]
                           \/ rank[i] = rank[j] /\ quiet[i] < quiet[j]
                           \/ rank[i] = rank[j] /\ quiet[i] = quiet[j] /\ i <= j
           R == {ij \in askable \X askable : Before(ij[1], ij[2])}
<1>1. CASE askable = {} \/ ~PacingAllowsProbe
  BY <1>1 DEF ProbeFor
<1>2. CASE ~(askable = {} \/ ~PacingAllowsProbe)
  <2>1. ProbeFor(targets)
          = CHOOSE i \in askable : \A j \in askable : AskedBefore(i, j)
    BY <1>2 DEF ProbeFor
  <2>2. \A k \in Items : /\ k \in Nat /\ rank[k] \in Nat /\ quiet[k] \in Nat
    BY ItemsAssumption DEF ProbePriority
  <2>3. \A i, j \in askable : AskedBefore(i, j) <=> Before(i, j)
    BY DEF AskedBefore
  <2>4. askable \in SUBSET Items OBVIOUS
  <2> HIDE DEF rank, quiet, askable
  <2>5. \A i, j \in askable : Before(i, j) \/ Before(j, i)
    BY <2>2, <2>4
  <2>6. \A i, j, k \in askable : Before(i, j) /\ Before(j, k) => Before(i, k)
    BY <2>2, <2>4
  <2> HIDE DEF Before
  <2>7. \A i, j \in askable : <<i, j>> \in R <=> Before(i, j)
    OBVIOUS
  <2> HIDE DEF R
  <2>8. Orders(R, askable)
    BY <2>5, <2>6, <2>7 DEF Orders
  <2>9. \E i \in askable : \A j \in askable : i = j \/ <<i, j>> \in R
    BY <1>2, <2>4, <2>8, ItemsFinite, FirstExists
  <2>10. \E i \in askable : \A j \in askable : AskedBefore(i, j)
    BY <2>3, <2>5, <2>7, <2>9
  <2>11. ProbeFor(targets) \in askable
    BY <2>1, <2>10
  <2> QED BY <1>2, <2>11 DEF askable
<1> QED BY <1>1, <1>2

Sessions == [id : 0..MaxSession, open : BOOLEAN, lang : Langs \cup {""},
             stale : BOOLEAN]

\* A request keeps the session, which it may close.
LEMMA SessionKept ==
  ASSUME session \in Sessions, SessionInv,
         session' \in {session, Active, [Active EXCEPT !.open = FALSE]}
  PROVE  session' \in Sessions /\ SessionInv'
  BY DEF Sessions, SessionInv, Active

\* The type of the session.
LEMMA SessionTyped == TypeOK => session \in Sessions
  BY DEF TypeOK, Sessions

\* What is put on the screen is a presentation of the candidate.
LEMMA ShownIsPresentation ==
  ASSUME TypeOK, RecordInv, NEW c \in Candidate, session.open
  PROVE  /\ Shown(c) \in Presentation
         /\ Shown(c).sentence = c.sentence /\ Shown(c).targets = c.targets
         /\ Shown(c).probe \in c.targets \cup {0}
         /\ Shown(c).probe = ProbeFor(c.targets)
         /\ Shown(c).role = c.role /\ Shown(c).reason = c.reason
         /\ Shown(c).session = session.id
         /\ Shown(c).done = 0 /\ Shown(c).exposed = {}
         /\ Shown(c).said = [i \in Items |-> NoSignal]
<1>1. /\ learn \in [Items -> State] /\ mastery \in [Items -> 0..3]
  BY Typed
<1>2. c.targets \in SUBSET Items BY DEF Candidate
<1>3. ProbeFor(c.targets) \in c.targets \cup {0}
  BY <1>1, <1>2, ProbeIsAskable
<1>4. session.id \in 1..MaxSession
  BY DEF RecordInv, SessionInv
<1>5. 0 \in 0..MaxTick
  BY BoundsAssumption
<1> DEFINE probe == ProbeFor(c.targets)
           said == [i \in Items |-> NoSignal]
           id == session.id
<1>6. Shown(c) = [role |-> c.role, reason |-> c.reason, stage |-> c.stage,
                  sentence |-> c.sentence, targets |-> c.targets, session |-> id,
                  said |-> said, probe |-> probe, closed |-> FALSE,
                  exposed |-> {}, done |-> 0, flagged |-> FALSE]
  BY DEF Shown
<1>7. said \in [Items -> Signals \cup {NoSignal}]
  OBVIOUS
<1>8. probe \in c.targets \cup {0} /\ id \in 1..MaxSession
  BY <1>3, <1>4
<1>9. probe = ProbeFor(c.targets) /\ id = session.id /\ said = [i \in Items |-> NoSignal]
  OBVIOUS
<1> HIDE DEF probe, said, id
<1> DEFINE p == Shown(c)
<1>10. /\ p.role = c.role /\ p.reason = c.reason /\ p.stage = c.stage
       /\ p.sentence = c.sentence /\ p.targets = c.targets /\ p.session = id
       /\ p.said = said /\ p.probe = probe /\ p.closed = FALSE
       /\ p.exposed = {} /\ p.done = 0 /\ p.flagged = FALSE
  BY <1>6
<1>11. p \in Presentation
  BY <1>2, <1>5, <1>6, <1>7, <1>8 DEF Presentation, Candidate
<1> HIDE DEF p
<1> QED BY <1>8, <1>9, <1>10, <1>11 DEF p

\* The next presentation keeps the record.
LEMMA RecordNext ==
  ASSUME RecordInv, NextPresentation
  PROVE  RecordInv'
<1> DEFINE choice == SelectNext
           gaps == GapJobs(choice, session.lang)
           c == choice.pool[choice.pick]
<1>1. TypeOK /\ ContentTypeOK /\ LearnerTypeOK /\ BlankInv /\ session \in Sessions
  BY SessionTyped DEF RecordInv, TypeOK
<1>2. /\ now \in Ticks /\ learn \in [Items -> State]
      /\ mastery \in [Items -> 0..3] /\ review \in [Items -> Row]
      /\ shown \in Seq(Presentation) /\ pool \in Seq(Candidate)
  BY <1>1, Typed
<1>3. ChoiceOK(choice)
  BY <1>1, <1>2, SelectNextIsOK DEF RecordInv
<1>4. /\ session.open /\ learn' = Anchored(choice) /\ session' = Active
      /\ UNCHANGED <<now, sentences, mastery, review>>
      /\ \/ /\ choice.pick # 0
            /\ shown' = Append(shown, Shown(c))
            /\ pool' = RemoveAt(choice.pool, choice.pick)
            /\ Ask(gaps)
         \/ /\ choice.pick = 0
            /\ pool' = choice.pool
            /\ Ask(gaps \o BatchJobs(session.lang))
            /\ UNCHANGED shown
  BY DEF NextPresentation
<1> HIDE DEF choice, gaps
<1>5. /\ choice.pool \in Seq(Candidate) /\ Showable(choice.pool)
      /\ AnchorsOK(choice.anchor)
      /\ choice.explain \subseteq Sentences /\ choice.context \subseteq Gap
      /\ \A g \in choice.context : GapOK(g)
      /\ choice.pick = 0 \/ choice.pick \in DOMAIN choice.pool
  BY <1>3 DEF ChoiceOK, Selectable
<1>6. ContentStep /\ \A q : Showable(q) => Showable(q)'
  BY <1>1, <1>4, SentencesStay
<1>7. session.lang \in Langs /\ session.id \in 1..MaxSession
  BY <1>4 DEF RecordInv, SessionInv
<1>8. /\ gaps \in Seq({j \in Job : JobOK(j)})
      /\ BatchJobs(session.lang) \in Seq({j \in Job : JobOK(j)})
  BY <1>5, <1>7, GapJobsAreOK, BatchJobsAreOK DEF gaps
<1>9. gaps \o BatchJobs(session.lang) \in Seq({j \in Job : JobOK(j)})
  <2> DEFINE Good == {j \in Job : JobOK(j)}
             b == BatchJobs(session.lang)
  <2>1. gaps \in Seq(Good) /\ b \in Seq(Good) BY <1>8
  <2> HIDE DEF Good, b
  <2>2. gaps \o b \in Seq(Good) BY <2>1
  <2> QED BY <2>2 DEF Good, b
<1>10. /\ asked' \subseteq {JobKey(j) : j \in Job}
       /\ pending' \in Seq(Job)
       /\ pending' \in Seq({j \in Job : JobOK(j)'})
  <2>1. CASE Ask(gaps)
    BY <1>1, <1>6, <1>8, <2>1, AskedNext DEF RecordInv
  <2>2. CASE Ask(gaps \o BatchJobs(session.lang))
    BY <1>1, <1>6, <1>9, <2>2, AskedNext DEF RecordInv
  <2> QED BY <1>4, <2>1, <2>2
<1>11. /\ learn' \in [Items -> State] /\ AnchorInv'
  <2>1. /\ learn' \in [Items -> State]
        /\ \A i \in Items : learn'[i].anchor = choice.anchor[i]
    BY <1>2, <1>4, <1>5, AnchoredOnly
  <2> QED BY <1>1, <1>5, <1>6, <2>1, AnchorsStay
<1>12. session' \in Sessions /\ SessionInv'
  BY <1>1, <1>4, SessionKept DEF RecordInv
<1>13. pool' \in Seq(Candidate) /\ Showable(pool')
  <2>1. CASE choice.pick = 0
    BY <1>4, <1>5, <2>1
  <2>2. CASE choice.pick # 0
    <3>1. choice.pick \in DOMAIN choice.pool /\ pool' = RemoveAt(choice.pool, choice.pick)
      BY <1>4, <1>5, <2>2
    <3> QED BY <1>5, <3>1, RemovedIsShowable
  <2> QED BY <2>1, <2>2
<1>14. PoolIsShowable'
  BY <1>4, <1>6, <1>13 DEF PoolIsShowable, Showable
<1>15. shown' \in Seq(Presentation) /\ ShownInv'
  <2>1. CASE choice.pick = 0
    BY <1>2, <1>4, <2>1 DEF RecordInv, ShownInv
  <2>2. CASE choice.pick # 0
    <3>1. /\ choice.pick \in DOMAIN choice.pool /\ shown' = Append(shown, Shown(c))
      BY <1>4, <1>5, <2>2
    <3>2. c \in Candidate
      BY <1>5, <3>1
    <3>3. /\ sentences[c.sentence].status = "validated"
          /\ sentences[c.sentence].explained
          /\ c.targets \subseteq sentences[c.sentence].items
      BY <1>5, <3>1 DEF Showable
    <3> HIDE DEF c
    <3>4. /\ Shown(c) \in Presentation
          /\ Shown(c).sentence = c.sentence /\ Shown(c).targets = c.targets
          /\ Shown(c).probe \in c.targets \cup {0}
      BY <1>1, <1>4, <3>2, ShownIsPresentation
    <3> DEFINE d == Shown(c)
    <3> HIDE DEF d
    <3>5. /\ shown' \in Seq(Presentation)
          /\ \A p \in DOMAIN shown' : \/ p \in DOMAIN shown /\ shown'[p] = shown[p]
                                      \/ shown'[p] = d
      BY <1>2, <3>1, <3>4 DEF d
    <3>6. ShownInv'
      BY <1>4, <3>3, <3>4, <3>5 DEF RecordInv, ShownInv, d
    <3> QED BY <3>5, <3>6
  <2> QED BY <2>1, <2>2
<1>16. TypeOK'
  BY <1>2, <1>4, <1>6, <1>10, <1>11, <1>12, <1>13, <1>15, TypedNext
     DEF ContentStep, Sessions
<1>17. ContextsAreNew'
  BY <1>10, <1>16, JobsNewNext
<1> QED BY <1>6, <1>11, <1>12, <1>14, <1>15, <1>16, <1>17
        DEF RecordInv, ContentStep

-----------------------------------------------------------------------------
(* What happens on the screen *)

\* The presentations are the same: nothing that was chosen for them changes.
SameScreens ==
  /\ shown' \in Seq(Presentation)
  /\ DOMAIN shown' = DOMAIN shown
  /\ \A q \in DOMAIN shown : /\ shown'[q].role = shown[q].role
                             /\ shown'[q].stage = shown[q].stage
                             /\ shown'[q].sentence = shown[q].sentence
                             /\ shown'[q].targets = shown[q].targets
                             /\ shown'[q].session = shown[q].session
                             /\ shown'[q].probe = shown[q].probe

\* A signal about an item is added to one of them, and nothing else.
Heard(p, i, signal) ==
  /\ SameScreens
  /\ \A q \in DOMAIN shown : /\ shown'[q].exposed = shown[q].exposed
                             /\ shown'[q].done = shown[q].done
                             /\ q # p => shown'[q].said = shown[q].said
  /\ shown'[p].said = [shown[p].said EXCEPT ![i] = signal]

\* Another value in the row of one presentation.
LEMMA RowReplaced ==
  ASSUME shown \in Seq(Presentation), NEW p \in DOMAIN shown,
         NEW row \in Presentation, shown' = [shown EXCEPT ![p] = row]
  PROVE  /\ shown' \in Seq(Presentation) /\ DOMAIN shown' = DOMAIN shown
         /\ shown'[p] = row
         /\ \A q \in DOMAIN shown : q # p => shown'[q] = shown[q]
  OBVIOUS

\* An answer changes what was said about one item on one screen.
LEMMA HeardReport ==
  ASSUME shown \in Seq(Presentation), NEW p \in DOMAIN shown, NEW i \in Items,
         NEW signal \in Signals,
         \/ shown' = [shown EXCEPT ![p].said[i] = signal]
         \/ shown' = [shown EXCEPT ![p].said[i] = signal, ![p].closed = TRUE]
  PROVE  Heard(p, i, signal)
<1> DEFINE said == [shown[p].said EXCEPT ![i] = signal]
<1>1. shown[p] \in Presentation /\ shown[p].said \in [Items -> Signals \cup {NoSignal}]
  BY ShownTyped
<1>2. said \in [Items -> Signals \cup {NoSignal}]
  BY <1>1
<1>3. \/ shown' = [shown EXCEPT ![p] = [shown[p] EXCEPT !.said = said]]
      \/ shown' = [shown EXCEPT ![p] = [shown[p] EXCEPT !.said = said,
                                                         !.closed = TRUE]]
  BY <1>1 DEF Presentation
<1> HIDE DEF said
<1>4. PICK row \in Presentation :
         /\ shown' = [shown EXCEPT ![p] = row]
         /\ row.role = shown[p].role /\ row.stage = shown[p].stage
         /\ row.sentence = shown[p].sentence /\ row.targets = shown[p].targets
         /\ row.session = shown[p].session /\ row.probe = shown[p].probe
         /\ row.exposed = shown[p].exposed /\ row.done = shown[p].done
         /\ row.said = said
  <2>1. ASSUME NEW closed \in BOOLEAN,
               shown' = [shown EXCEPT ![p] = [shown[p] EXCEPT !.said = said,
                                                              !.closed = closed]]
        PROVE  \E row \in Presentation :
         /\ shown' = [shown EXCEPT ![p] = row]
         /\ row.role = shown[p].role /\ row.stage = shown[p].stage
         /\ row.sentence = shown[p].sentence /\ row.targets = shown[p].targets
         /\ row.session = shown[p].session /\ row.probe = shown[p].probe
         /\ row.exposed = shown[p].exposed /\ row.done = shown[p].done
         /\ row.said = said
    <3> DEFINE row == [shown[p] EXCEPT !.said = said, !.closed = closed]
    <3>1. /\ row \in Presentation
          /\ row.role = shown[p].role /\ row.stage = shown[p].stage
          /\ row.sentence = shown[p].sentence /\ row.targets = shown[p].targets
          /\ row.session = shown[p].session /\ row.probe = shown[p].probe
          /\ row.exposed = shown[p].exposed /\ row.done = shown[p].done
          /\ row.said = said
      BY <1>1, <1>2 DEF Presentation
    <3> QED BY <2>1, <3>1
  <2>2. shown[p].closed \in BOOLEAN /\ TRUE \in BOOLEAN
    BY ShownTyped
  <2>3. [shown[p] EXCEPT !.said = said]
          = [shown[p] EXCEPT !.said = said, !.closed = shown[p].closed]
    BY <1>1 DEF Presentation
  <2> QED BY <1>3, <2>1, <2>2, <2>3
<1>5. /\ shown' \in Seq(Presentation) /\ DOMAIN shown' = DOMAIN shown
      /\ shown'[p] = row
      /\ \A q \in DOMAIN shown : q # p => shown'[q] = shown[q]
  BY <1>4, RowReplaced
<1> QED BY <1>4, <1>5 DEF Heard, SameScreens, said

\* Closing a probe says nothing.
LEMMA ClosedProbe ==
  ASSUME shown \in Seq(Presentation), NEW p \in DOMAIN shown,
         shown' = [shown EXCEPT ![p].closed = TRUE]
  PROVE  /\ SameScreens
         /\ \A q \in DOMAIN shown : /\ shown'[q].exposed = shown[q].exposed
                                    /\ shown'[q].done = shown[q].done
                                    /\ shown'[q].said = shown[q].said
<1> DEFINE row == [shown[p] EXCEPT !.closed = TRUE]
<1>1. shown' = [shown EXCEPT ![p] = row]
  OBVIOUS
<1>2. /\ row \in Presentation
      /\ row.role = shown[p].role /\ row.stage = shown[p].stage
      /\ row.sentence = shown[p].sentence /\ row.targets = shown[p].targets
      /\ row.session = shown[p].session /\ row.probe = shown[p].probe
      /\ row.exposed = shown[p].exposed /\ row.done = shown[p].done
      /\ row.said = shown[p].said
  <2>1. shown[p] \in Presentation OBVIOUS
  <2> QED BY <2>1 DEF Presentation
<1> HIDE DEF row
<1>3. /\ shown' \in Seq(Presentation) /\ DOMAIN shown' = DOMAIN shown
      /\ shown'[p] = row
      /\ \A q \in DOMAIN shown : q # p => shown'[q] = shown[q]
  BY <1>1, <1>2, RowReplaced
<1> QED BY <1>2, <1>3 DEF SameScreens

\* A flag takes the exposures away, finalizing gives them.
LEMMA FlaggedScreen ==
  ASSUME shown \in Seq(Presentation), NEW p \in DOMAIN shown,
         shown' = [shown EXCEPT ![p].exposed = {}, ![p].flagged = TRUE]
  PROVE  /\ SameScreens
         /\ shown'[p].exposed = {}
         /\ \A q \in DOMAIN shown : /\ q # p => shown'[q].exposed = shown[q].exposed
                                    /\ shown'[q].done = shown[q].done
                                    /\ shown'[q].said = shown[q].said
<1> DEFINE row == [shown[p] EXCEPT !.exposed = {}, !.flagged = TRUE]
<1>1. shown' = [shown EXCEPT ![p] = row]
  OBVIOUS
<1>2. /\ row \in Presentation
      /\ row.role = shown[p].role /\ row.stage = shown[p].stage
      /\ row.sentence = shown[p].sentence /\ row.targets = shown[p].targets
      /\ row.session = shown[p].session /\ row.probe = shown[p].probe
      /\ row.exposed = {} /\ row.done = shown[p].done
      /\ row.said = shown[p].said
  <2>1. shown[p] \in Presentation OBVIOUS
  <2> QED BY <2>1 DEF Presentation
<1> HIDE DEF row
<1>3. /\ shown' \in Seq(Presentation) /\ DOMAIN shown' = DOMAIN shown
      /\ shown'[p] = row
      /\ \A q \in DOMAIN shown : q # p => shown'[q] = shown[q]
  BY <1>1, <1>2, RowReplaced
<1> QED BY <1>2, <1>3 DEF SameScreens

\* The items a finalized presentation leaves a trace on.
Touched(p) == IF Quarantined(shown[p].sentence) THEN {} ELSE shown[p].targets

\* Finalizing changes one screen.
LEMMA FinalizedScreen ==
  ASSUME shown \in Seq(Presentation), NEW p \in DOMAIN shown, now \in Ticks,
         Finalized(p)
  PROVE  /\ SameScreens
         /\ shown'[p].exposed = Touched(p) /\ shown'[p].done = now
         /\ \A q \in DOMAIN shown : /\ q # p => /\ shown'[q].exposed = shown[q].exposed
                                                /\ shown'[q].done = shown[q].done
                                    /\ shown'[q].said = shown[q].said
<1> DEFINE touched == Touched(p)
           row == [shown[p] EXCEPT !.done = now, !.exposed = touched]
<1>1. shown' = [shown EXCEPT ![p] = row]
  BY DEF Finalized, Touched
<1>2. touched \in SUBSET Items
  BY ShownTyped DEF Touched
<1>3. now \in 0..MaxTick
  BY BoundsAssumption DEF Ticks
<1> HIDE DEF touched
<1>4. /\ row \in Presentation
      /\ row.role = shown[p].role /\ row.stage = shown[p].stage
      /\ row.sentence = shown[p].sentence /\ row.targets = shown[p].targets
      /\ row.session = shown[p].session /\ row.probe = shown[p].probe
      /\ row.exposed = touched /\ row.done = now
      /\ row.said = shown[p].said
  <2>1. shown[p] \in Presentation OBVIOUS
  <2> QED BY <1>2, <1>3, <2>1 DEF Presentation
<1> HIDE DEF row
<1>5. /\ shown' \in Seq(Presentation) /\ DOMAIN shown' = DOMAIN shown
      /\ shown'[p] = row
      /\ \A q \in DOMAIN shown : q # p => shown'[q] = shown[q]
  BY <1>1, <1>4, RowReplaced
<1> QED BY <1>4, <1>5 DEF SameScreens, touched

-----------------------------------------------------------------------------
(* What an answer and a completed screen do to an item *)

\* Evidence changes the mastery and the schedule of one item, and only an item
\* that is active, scheduled or being promoted gets a schedule.
LEMMA EvidenceOnly ==
  ASSUME now \in Ticks, mastery \in [Items -> 0..3], review \in [Items -> Row],
         NEW i \in Items, NEW signal \in Signals, Evidence(i, signal)
  PROVE  /\ mastery' \in [Items -> 0..3]
         /\ review' \in [Items -> Row]
         /\ \A j \in Items : review'[j].count = review[j].count
         /\ \A j \in Items : j # i => review'[j] = review[j]
         /\ review'[i].row =>
              review[i].row \/ learn[i].active \/ Promotes(i, signal)
         /\ review[i].row => review'[i].row
         /\ session' = Active
<1>1. mastery' \in [Items -> 0..3]
  <2>1. PICK m \in EmaOutcomes(mastery[i], signal) :
           mastery' = [mastery EXCEPT ![i] = m]
    BY DEF Evidence, Measured
  <2>2. Observation[signal] \in 0..3
    BY DEF Observation, Signals
  <2>3. mastery[i] \in 0..3 OBVIOUS
  <2>4. m \in 0..3
    BY <2>1, <2>2, <2>3 DEF EmaOutcomes, NotMeasured
  <2> QED BY <2>1, <2>4
<1>2. session' = Active
  BY DEF Evidence
<1>3. CASE /\ review[i].row \/ learn[i].active \/ Promotes(i, signal)
           /\ Rescheduled(i, signal)
  <2>1. PICK d \in Interval[signal] :
          review' = [review EXCEPT ![i].row = TRUE, ![i].next = now + d,
                                   ![i].hidden = 0]
    BY <1>3 DEF Rescheduled
  <2>2. d \in Nat /\ now \in Nat
    BY SignalsAssumption DEF Ticks
  <2> DEFINE row == [review[i] EXCEPT !.row = TRUE, !.next = now + d, !.hidden = 0]
  <2>3. review' = [review EXCEPT ![i] = row]
    BY <2>1
  <2>4. row \in Row /\ row.count = review[i].count /\ row.row
    <3>1. review[i] \in Row /\ now + d \in Nat BY <2>2
    <3> DEFINE t == now + d
    <3>2. t \in Nat BY <3>1
    <3> HIDE DEF t
    <3>3. row = [review[i] EXCEPT !.row = TRUE, !.next = t, !.hidden = 0] BY DEF t
    <3> QED BY <3>1, <3>2, <3>3 DEF Row
  <2> HIDE DEF row
  <2> QED BY <1>1, <1>2, <1>3, <2>3, <2>4
<1>4. CASE UNCHANGED review
  BY <1>1, <1>2, <1>4
<1> QED BY <1>3, <1>4 DEF Evidence

\* A promotion keeps the stage, and sets an anchor only where there is none.
LEMMA PromotedOnly ==
  ASSUME learn \in [Items -> State], NEW i \in Items, NEW s \in Sentences,
         NEW signal
  PROVE  LET new == Promoted(i, s, signal)
         IN  /\ new \in State
             /\ new.stage = learn[i].stage
             /\ new.active => learn[i].active \/ Promotes(i, signal)
             /\ \/ new.anchor = learn[i].anchor
                \/ learn[i].anchor = 0 /\ new.anchor = s
<1>1. learn[i] \in State OBVIOUS
<1>2. s \in 0..MaxSentence
  BY SentencesAreNumbers
<1>3. CASE Promotes(i, signal)
  <2> DEFINE anchor == IF learn[i].anchor = 0 THEN s ELSE learn[i].anchor
  <2>1. Promoted(i, s, signal) = [learn[i] EXCEPT !.active = TRUE, !.anchor = anchor]
    BY <1>1, <1>3 DEF Promoted, State
  <2>2. anchor \in 0..MaxSentence
    BY <1>1, <1>2 DEF State
  <2>3. anchor = learn[i].anchor \/ (learn[i].anchor = 0 /\ anchor = s)
    OBVIOUS
  <2> HIDE DEF anchor
  <2> QED BY <1>1, <1>3, <2>1, <2>2, <2>3 DEF State
<1>4. CASE ~Promotes(i, signal)
  BY <1>1, <1>4 DEF Promoted
<1> QED BY <1>3, <1>4

\* The rows after a presentation was finalized.
LEMMA FinalizedRows ==
  ASSUME now \in Ticks, learn \in [Items -> State], review \in [Items -> Row],
         shown \in Seq(Presentation), NEW p \in DOMAIN shown, Finalized(p)
  PROVE  /\ learn' \in [Items -> State]
         /\ review' \in [Items -> Row]
         /\ \A i \in Items :
              /\ learn'[i].anchor = learn[i].anchor
              /\ learn'[i].active = learn[i].active
              /\ learn'[i].stage =
                   IF i \in Touched(p)
                   THEN AdvancedStage(learn[i].stage, shown[p].stage, Failed(p, i))
                   ELSE learn[i].stage
              /\ review'[i].row = review[i].row
              /\ review'[i].count =
                   IF i \in Touched(p) /\ review[i].row THEN Exposures(i) + 1
                   ELSE review[i].count
<1> DEFINE touched == Touched(p)
           next(i) == IF i \in touched THEN Ignored(p, i, Climbed(p, i))
                      ELSE learn[i]
           row(i) == IF i \in touched /\ review[i].row
                     THEN Deferred(p, i, Refreshed(i)) ELSE review[i]
<1>1. /\ learn' = [i \in Items |-> next(i)]
      /\ review' = [i \in Items |-> row(i)]
  BY DEF Finalized, Touched
<1>2. shown[p].stage \in Stages
  BY ShownTyped
<1>3. now + 1 \in Nat
  BY DEF Ticks
<1>4. ASSUME NEW i \in Items
      PROVE  /\ next(i) \in State
             /\ next(i).anchor = learn[i].anchor
             /\ next(i).active = learn[i].active
             /\ next(i).stage =
                  IF i \in touched
                  THEN AdvancedStage(learn[i].stage, shown[p].stage, Failed(p, i))
                  ELSE learn[i].stage
  <2>1. learn[i] \in State OBVIOUS
  <2>2. CASE i \notin touched
    BY <2>1, <2>2
  <2>3. CASE i \in touched
    <3> DEFINE stage == AdvancedStage(learn[i].stage, shown[p].stage, Failed(p, i))
    <3>1. learn[i].stage \in Stages BY <2>1 DEF State
    <3>2. stage \in Stages
      BY <1>2, <3>1 DEF AdvancedStage, StepUp, StepDown, Stages, Anchor, NewContext
    <3>3. Climbed(p, i) = [learn[i] EXCEPT !.stage = stage]
      BY <2>1 DEF Climbed, State
    <3> DEFINE climbed == Climbed(p, i)
    <3>4. stage = AdvancedStage(learn[i].stage, shown[p].stage, Failed(p, i))
      OBVIOUS
    <3> HIDE DEF stage
    <3>5. /\ climbed \in State /\ climbed.anchor = learn[i].anchor
          /\ climbed.active = learn[i].active /\ climbed.stage = stage
          /\ climbed.silent = learn[i].silent
      BY <2>1, <3>2, <3>3 DEF State
    <3> HIDE DEF climbed
    <3>6. next(i) = IF Unanswered(p, i) /\ climbed.silent < Passive
                    THEN [climbed EXCEPT !.silent = climbed.silent + 1]
                    ELSE climbed
      BY <2>3, <3>5 DEF Ignored, climbed, State
    <3>7. CASE Unanswered(p, i) /\ climbed.silent < Passive
      <4>1. Passive \in Nat /\ climbed.silent \in 0..Passive
        BY <3>5, PolicyAssumption DEF State
      <4> DEFINE more == climbed.silent + 1
      <4>2. more \in 0..Passive BY <3>7, <4>1
      <4>3. next(i) = [climbed EXCEPT !.silent = more]
        BY <3>6, <3>7
      <4> HIDE DEF more, next
      <4>4. /\ next(i) \in State /\ next(i).anchor = climbed.anchor
            /\ next(i).active = climbed.active /\ next(i).stage = climbed.stage
        BY <3>5, <4>2, <4>3 DEF State
      <4> QED BY <2>3, <3>4, <3>5, <4>4
    <3>8. CASE ~(Unanswered(p, i) /\ climbed.silent < Passive)
      <4>1. next(i) = climbed BY <3>6, <3>8
      <4> HIDE DEF next
      <4> QED BY <2>3, <3>4, <3>5, <4>1
    <3> QED BY <3>7, <3>8
  <2> QED BY <2>2, <2>3
<1>5. ASSUME NEW i \in Items
      PROVE  /\ row(i) \in Row
             /\ row(i).row = review[i].row
             /\ row(i).count = IF i \in touched /\ review[i].row
                               THEN Exposures(i) + 1 ELSE review[i].count
  <2>1. review[i] \in Row OBVIOUS
  <2>2. CASE ~(i \in touched /\ review[i].row)
    BY <2>1, <2>2
  <2>3. CASE i \in touched /\ review[i].row
    <3> DEFINE count == Exposures(i) + 1
               fresh == Refreshed(i)
    <3>1. count \in Nat
      <4>1. Exposures(i) \in Nat BY ShownFinite DEF Exposures
      <4> QED BY <4>1
    <3>2. fresh = [review[i] EXCEPT !.count = count]
      BY DEF Refreshed
    <3>3. count = Exposures(i) + 1 OBVIOUS
    <3> HIDE DEF count
    <3>4. fresh \in Row /\ fresh.row = review[i].row /\ fresh.count = count
      BY <2>1, <3>1, <3>2 DEF Row
    <3> HIDE DEF fresh
    <3>5. row(i) = IF Unanswered(p, i) /\ shown[p].role = "review"
                   THEN [fresh EXCEPT !.hidden = now + 1] ELSE fresh
      BY <2>3 DEF Deferred, fresh
    <3> DEFINE later == now + 1
    <3>6. later \in Nat BY <1>3
    <3>7. row(i) = IF Unanswered(p, i) /\ shown[p].role = "review"
                   THEN [fresh EXCEPT !.hidden = later] ELSE fresh
      BY <3>5
    <3> HIDE DEF later, row
    <3>8. row(i) \in Row /\ row(i).row = fresh.row /\ row(i).count = fresh.count
      BY <3>4, <3>6, <3>7 DEF Row
    <3> QED BY <2>3, <3>3, <3>4, <3>8
  <2> QED BY <2>2, <2>3
<1> HIDE DEF next, row
<1>6. learn' \in [Items -> State] /\ review' \in [Items -> Row]
  BY <1>1, <1>4, <1>5
<1>7. \A i \in Items : learn'[i] = next(i) /\ review'[i] = row(i)
  BY <1>1
<1> QED BY <1>4, <1>5, <1>6, <1>7 DEF touched

\* A step that adds no content, shows nothing and asks for nothing.
LEMMA RecordQuiet ==
  ASSUME RecordInv, UNCHANGED <<now, sentences, pool, jobVars>>, SameScreens,
         learn' \in [Items -> State], mastery' \in [Items -> 0..3],
         review' \in [Items -> Row],
         \A i \in Items : \/ learn'[i].anchor = learn[i].anchor
                          \/ Anchoring(i, learn'[i].anchor),
         session' \in {session, Active, [Active EXCEPT !.open = FALSE]}
  PROVE  RecordInv'
<1>1. TypeOK /\ ContentTypeOK /\ BlankInv /\ session \in Sessions
  BY SessionTyped DEF RecordInv, TypeOK
<1>2. /\ now \in Ticks /\ pool \in Seq(Candidate)
      /\ asked \subseteq {JobKey(j) : j \in Job} /\ pending \in Seq(Job)
  BY <1>1, Typed
<1>3. ContentStep /\ \A q : Showable(q) => Showable(q)'
  BY <1>1, SentencesStay
<1>4. session' \in Sessions /\ SessionInv'
  BY <1>1, SessionKept DEF RecordInv
<1>5. TypeOK'
  BY <1>2, <1>3, <1>4, TypedNext DEF ContentStep, Sessions, SameScreens, jobVars
<1>6. ShownInv'
  BY <1>1, <1>3, ShownStays DEF RecordInv, SameScreens, ContentStep
<1>7. PoolIsShowable'
  BY <1>3 DEF PoolIsShowable, RecordInv, Showable
<1>8. AnchorInv'
  <2>1. \A i \in Items : /\ learn[i].anchor # 0 => Anchoring(i, learn[i].anchor)'
                         /\ Anchoring(i, learn'[i].anchor)
                              => /\ learn'[i].anchor \in Sentences
                                 /\ Anchoring(i, learn'[i].anchor)
    BY <1>1, <1>3, ContentGrows DEF AnchorInv, RecordInv, ContentStep, Anchoring
  <2>2. \A i \in Items : learn'[i].anchor # 0 => Anchoring(i, learn'[i].anchor)
    BY DEF RecordInv, AnchorInv
  <2> QED BY <2>2 DEF AnchorInv, Anchoring
<1>9. ContextsAreNew'
  BY DEF RecordInv, ContextsAreNew, jobVars
<1> QED BY <1>3, <1>4, <1>5, <1>6, <1>7, <1>8, <1>9 DEF RecordInv, ContentStep

\* The two ways an answer is given.
Answer(p, i, signal) == SelfReport(p, i, signal) \/ AnswerProbe(p, i, signal)

\* What a self-report and the answer to a probe have in common.
LEMMA AnswerIs ==
  ASSUME RecordInv, NEW p \in DOMAIN shown, NEW i \in Items,
         NEW signal \in Used[i], Answer(p, i, signal)
  PROVE  /\ Heard(p, i, signal)
         /\ signal \in Signals /\ shown[p].said[i] = NoSignal /\ p \in OnScreen
         /\ Evidence(i, signal)
         /\ i \in sentences[shown[p].sentence].items
         /\ learn' \in [Items -> State]
         /\ \A j \in Items :
              /\ learn'[j].stage = learn[j].stage
              /\ j # i => learn'[j] = learn[j]
         /\ learn'[i].active => learn[i].active \/ Promotes(i, signal)
         /\ \/ learn'[i].anchor = learn[i].anchor
            \/ learn[i].anchor = 0 /\ learn'[i].anchor = shown[p].sentence
         /\ UNCHANGED <<now, sentences, pool, jobVars>>
<1>1. /\ TypeOK /\ now \in Ticks /\ learn \in [Items -> State]
      /\ shown \in Seq(Presentation)
  BY Typed DEF RecordInv
<1>2. signal \in Signals
  BY SignalsAssumption
<1>3. shown[p].sentence \in Sentences
  BY <1>1, ShownTyped
<1> DEFINE new == Promoted(i, shown[p].sentence, signal)
<1>4. /\ new \in State /\ new.stage = learn[i].stage
      /\ new.active => learn[i].active \/ Promotes(i, signal)
      /\ \/ new.anchor = learn[i].anchor
         \/ learn[i].anchor = 0 /\ new.anchor = shown[p].sentence
  BY <1>1, <1>3, PromotedOnly
<1>5. CASE SelfReport(p, i, signal)
  <2>1. /\ shown' = [shown EXCEPT ![p].said[i] = signal]
        /\ shown[p].said[i] = NoSignal /\ p \in OnScreen
        /\ Evidence(i, signal) /\ i \in sentences[shown[p].sentence].items
        /\ learn' = [learn EXCEPT ![i] = new]
        /\ UNCHANGED <<now, sentences, pool, jobVars>>
    BY <1>5 DEF SelfReport, Interacting
  <2>2. Heard(p, i, signal)
    BY <1>1, <1>2, <2>1, HeardReport
  <2> HIDE DEF new
  <2> QED BY <1>1, <1>2, <1>4, <2>1, <2>2
<1>6. CASE AnswerProbe(p, i, signal)
  <2> DEFINE late == [new EXCEPT !.asked = now]
  <2>1. /\ shown' = [shown EXCEPT ![p].said[i] = signal, ![p].closed = TRUE]
        /\ shown[p].said[i] = NoSignal /\ p \in OnScreen
        /\ Evidence(i, signal) /\ shown[p].probe = i
        /\ learn' = [learn EXCEPT ![i] = late]
        /\ UNCHANGED <<now, sentences, pool, jobVars>>
    BY <1>6 DEF AnswerProbe, Interacting
  <2>2. Heard(p, i, signal)
    BY <1>1, <1>2, <2>1, HeardReport
  <2> HIDE DEF new
  <2>3. now \in 0..MaxTick
    BY <1>1, BoundsAssumption DEF Ticks
  <2>4. /\ late \in State /\ late.stage = new.stage
        /\ late.active = new.active /\ late.anchor = new.anchor
    BY <1>4, <2>3 DEF State
  <2>5. i \in sentences[shown[p].sentence].items
    <3>1. i # 0 BY ItemsAssumption
    <3> QED BY <2>1, <3>1 DEF RecordInv, ShownInv
  <2> HIDE DEF late
  <2> QED BY <1>1, <1>2, <1>4, <2>1, <2>2, <2>4, <2>5
<1> QED BY <1>5, <1>6 DEF Answer

\* An answer keeps the record.
LEMMA RecordAnswer ==
  ASSUME RecordInv, NEW p \in DOMAIN shown, NEW i \in Items,
         NEW signal \in Used[i], Answer(p, i, signal)
  PROVE  RecordInv'
<1>1. /\ TypeOK /\ now \in Ticks /\ shown \in Seq(Presentation)
      /\ mastery \in [Items -> 0..3] /\ review \in [Items -> Row]
  BY Typed DEF RecordInv
<1>2. /\ Heard(p, i, signal) /\ signal \in Signals /\ Evidence(i, signal)
      /\ i \in sentences[shown[p].sentence].items
      /\ learn' \in [Items -> State]
      /\ \A j \in Items : j # i => learn'[j] = learn[j]
      /\ \/ learn'[i].anchor = learn[i].anchor
         \/ learn[i].anchor = 0 /\ learn'[i].anchor = shown[p].sentence
      /\ UNCHANGED <<now, sentences, pool, jobVars>>
  BY AnswerIs
<1>3. /\ mastery' \in [Items -> 0..3] /\ review' \in [Items -> Row]
      /\ session' = Active
  BY <1>1, <1>2, EvidenceOnly
<1>4. Anchoring(i, shown[p].sentence)
  <2>1. shown[p].sentence \in Sentences BY <1>1, ShownTyped
  <2> QED BY <1>2, <2>1 DEF Anchoring, RecordInv, ShownInv
<1>5. \A j \in Items : \/ learn'[j].anchor = learn[j].anchor
                       \/ Anchoring(j, learn'[j].anchor)
  BY <1>2, <1>4
<1> QED BY <1>2, <1>3, <1>5, RecordQuiet DEF Heard

\* Skipping a probe changes the time it was asked at, and nothing else of the item.
LEMMA SkipIs ==
  ASSUME RecordInv, NEW p \in DOMAIN shown, SkipProbe(p)
  PROVE  /\ SameScreens
         /\ \A q \in DOMAIN shown : /\ shown'[q].exposed = shown[q].exposed
                                    /\ shown'[q].done = shown[q].done
                                    /\ shown'[q].said = shown[q].said
         /\ learn' \in [Items -> State]
         /\ \A j \in Items : /\ learn'[j].stage = learn[j].stage
                             /\ learn'[j].anchor = learn[j].anchor
                             /\ learn'[j].active = learn[j].active
         /\ session' = Active
         /\ UNCHANGED <<now, sentences, mastery, review, pool, jobVars>>
<1>1. /\ now \in Ticks /\ learn \in [Items -> State]
      /\ shown \in Seq(Presentation)
  BY Typed DEF RecordInv
<1> DEFINE i == shown[p].probe
           new == [learn[i] EXCEPT !.asked = now]
<1>2. i \in Items
  BY <1>1, ShownTyped DEF SkipProbe
<1>3. /\ shown' = [shown EXCEPT ![p].closed = TRUE]
      /\ learn' = [learn EXCEPT ![i] = new]
      /\ session' = Active
      /\ UNCHANGED <<now, sentences, mastery, review, pool, jobVars>>
  BY DEF SkipProbe
<1>4. /\ SameScreens
      /\ \A q \in DOMAIN shown : /\ shown'[q].exposed = shown[q].exposed
                                 /\ shown'[q].done = shown[q].done
                                 /\ shown'[q].said = shown[q].said
  BY <1>1, <1>3, ClosedProbe
<1>5. now \in 0..MaxTick
  BY <1>1, BoundsAssumption DEF Ticks
<1>6. /\ new \in State /\ new.stage = learn[i].stage
      /\ new.anchor = learn[i].anchor /\ new.active = learn[i].active
  BY <1>1, <1>2, <1>5 DEF State
<1> HIDE DEF new, i
<1> QED BY <1>1, <1>2, <1>3, <1>4, <1>6

\* Skipping a probe keeps the record.
LEMMA RecordSkip ==
  ASSUME RecordInv, NEW p \in DOMAIN shown, SkipProbe(p)
  PROVE  RecordInv'
<1>1. mastery \in [Items -> 0..3] /\ review \in [Items -> Row]
  BY Typed DEF RecordInv
<1> QED BY <1>1, SkipIs, RecordQuiet

\* Finalizing, by completing or by finishing.
Finalizes(p) == /\ p \in OnScreen
                /\ Finalized(p)
                /\ session' \in {Active, [Active EXCEPT !.open = FALSE]}
                /\ UNCHANGED <<now, sentences, mastery, pool, jobVars>>

\* Completing finalizes the presentation.
LEMMA CompleteFinalizes ==
  ASSUME NEW p \in DOMAIN shown, Complete(p)
  PROVE  Finalizes(p)
  BY DEF Complete, Finalizes, Interacting

\* Finishing finalizes what is on the screen, if anything is.
LEMMA FinishIs ==
  ASSUME Finish
  PROVE  \/ \E p \in DOMAIN shown : Finalizes(p)
         \/ /\ session' = [Active EXCEPT !.open = FALSE]
            /\ UNCHANGED <<now, sentences, learn, mastery, review, pool, shown,
                           jobVars>>
  BY DEF Finish, Finalizes, OnScreen, InSession

\* Finalizing keeps the record.
LEMMA RecordFinalize ==
  ASSUME RecordInv, NEW p \in DOMAIN shown, Finalizes(p)
  PROVE  RecordInv'
<1>1. /\ now \in Ticks /\ learn \in [Items -> State]
      /\ mastery \in [Items -> 0..3] /\ review \in [Items -> Row]
      /\ shown \in Seq(Presentation)
  BY Typed DEF RecordInv
<1>2. SameScreens
  BY <1>1, FinalizedScreen DEF Finalizes
<1>3. /\ learn' \in [Items -> State] /\ review' \in [Items -> Row]
      /\ \A i \in Items : learn'[i].anchor = learn[i].anchor
  BY <1>1, FinalizedRows DEF Finalizes
<1> QED BY <1>1, <1>2, <1>3, RecordQuiet DEF Finalizes

\* A closing of the session that finalizes nothing, and a stuttering step.
LEMMA RecordClose ==
  ASSUME RecordInv,
         UNCHANGED <<now, sentences, learn, mastery, review, pool, shown, jobVars>>,
         session' \in {session, Active, [Active EXCEPT !.open = FALSE]}
  PROVE  RecordInv'
<1>1. /\ learn \in [Items -> State] /\ mastery \in [Items -> 0..3]
      /\ review \in [Items -> Row] /\ shown \in Seq(Presentation)
  BY Typed DEF RecordInv
<1>2. SameScreens
  BY <1>1 DEF SameScreens
<1> QED BY <1>1, <1>2, RecordQuiet

\* Time keeps the record.
LEMMA RecordTick ==
  ASSUME RecordInv, Tick
  PROVE  RecordInv'
<1>1. TypeOK /\ ContentTypeOK /\ BlankInv /\ session \in Sessions
  BY SessionTyped DEF RecordInv, TypeOK
<1>2. /\ now \in Ticks /\ learn \in [Items -> State]
      /\ mastery \in [Items -> 0..3] /\ review \in [Items -> Row]
      /\ pool \in Seq(Candidate) /\ shown \in Seq(Presentation)
      /\ asked \subseteq {JobKey(j) : j \in Job} /\ pending \in Seq(Job)
  BY <1>1, Typed
<1>3. /\ now < MaxTick /\ now' = now + 1
      /\ session' = [session EXCEPT !.stale = session.open]
      /\ asked' \in {asked, {}}
      /\ UNCHANGED <<sentences, learn, mastery, review, pool, shown, pending>>
  BY DEF Tick, learnerVars
<1>4. now' \in Ticks
  BY <1>2, <1>3, BoundsAssumption DEF Ticks
<1>5. session' \in Sessions /\ SessionInv'
  BY <1>1, <1>3 DEF Sessions, SessionInv, RecordInv
<1>6. ContentTypeOK' /\ BlankInv'
  BY <1>1, <1>3 DEF ContentTypeOK, BlankInv
<1>7. TypeOK'
  BY <1>2, <1>3, <1>4, <1>5, <1>6, TypedNext DEF Sessions
<1>8. ShownInv' /\ AnchorInv' /\ PoolIsShowable' /\ ContextsAreNew'
  BY <1>3 DEF RecordInv, ShownInv, AnchorInv, Anchoring, PoolIsShowable,
              Showable, ContextsAreNew
<1> QED BY <1>5, <1>6, <1>7, <1>8 DEF RecordInv

\* Quarantining keeps what is on record, and takes the sentence off the pool.
LEMMA FlagIs ==
  ASSUME RecordInv, NEW p \in DOMAIN shown, Flag(p)
  PROVE  LET lost == shown[p].exposed
         IN  /\ SameScreens
             /\ shown'[p].exposed = {}
             /\ \A q \in DOMAIN shown : /\ q # p => shown'[q].exposed = shown[q].exposed
                                        /\ shown'[q].done = shown[q].done
                                        /\ shown'[q].said = shown[q].said
             /\ review' \in [Items -> Row]
             /\ \A i \in Items :
                  /\ review'[i].row = review[i].row
                  /\ review'[i].count =
                       IF i \in lost /\ review[i].row THEN Exposures(i) - 1
                       ELSE review[i].count
             /\ session' \in {session, Active}
             /\ UNCHANGED <<now, learn, mastery, jobVars>>
<1> DEFINE lost == shown[p].exposed
           row(i) == IF i \in lost THEN Recounted(i) ELSE review[i]
<1>1. review \in [Items -> Row] /\ shown \in Seq(Presentation)
  BY Typed DEF RecordInv
<1>2. /\ shown' = [shown EXCEPT ![p].exposed = {}, ![p].flagged = TRUE]
      /\ review' = [i \in Items |-> row(i)]
      /\ session' \in {session, Active}
      /\ UNCHANGED <<now, learn, mastery, jobVars>>
  BY DEF Flag
<1>3. /\ SameScreens /\ shown'[p].exposed = {}
      /\ \A q \in DOMAIN shown : /\ q # p => shown'[q].exposed = shown[q].exposed
                                 /\ shown'[q].done = shown[q].done
                                 /\ shown'[q].said = shown[q].said
  BY <1>1, <1>2, FlaggedScreen
<1>4. ASSUME NEW i \in Items
      PROVE  /\ row(i) \in Row /\ row(i).row = review[i].row
             /\ row(i).count = IF i \in lost /\ review[i].row
                               THEN Exposures(i) - 1 ELSE review[i].count
  <2>1. review[i] \in Row BY <1>1
  <2>2. CASE i \in lost /\ review[i].row
    <3> DEFINE P == {q \in DOMAIN shown : i \in shown[q].exposed}
               count == Exposures(i) - 1
    <3>1. Exposures(i) = Cardinality(P) BY DEF Exposures
    <3>2. P \in SUBSET DOMAIN shown /\ p \in P BY <2>2
    <3> HIDE DEF P
    <3>3. IsFiniteSet(P) /\ Cardinality(P) \in Nat BY <1>1, <3>2, ShownFinite
    <3>4. Cardinality(P) # 0 BY <3>2, <3>3, FS_EmptySet
    <3>5. count \in Nat BY <3>1, <3>3, <3>4
    <3>6. row(i) = [review[i] EXCEPT !.count = count]
      BY <2>2 DEF Recounted
    <3>7. count = Exposures(i) - 1 OBVIOUS
    <3> HIDE DEF count, row
    <3> QED BY <2>1, <2>2, <3>5, <3>6, <3>7 DEF Row
  <2>3. CASE i \in lost /\ ~review[i].row
    <3>1. row(i) = review[i] BY <2>3 DEF Recounted
    <3> HIDE DEF row
    <3> QED BY <2>1, <2>3, <3>1
  <2>4. CASE i \notin lost
    BY <2>1, <2>4
  <2> QED BY <2>2, <2>3, <2>4
<1> HIDE DEF row
<1>5. review' \in [Items -> Row] /\ \A i \in Items : review'[i] = row(i)
  BY <1>2, <1>4
<1> QED BY <1>2, <1>3, <1>4, <1>5

\* A flag keeps the record: it takes the candidates of the sentence along.
LEMMA RecordFlag ==
  ASSUME RecordInv, NEW p \in DOMAIN shown, Flag(p)
  PROVE  RecordInv'
<1>1. /\ TypeOK /\ ContentTypeOK /\ BlankInv /\ session \in Sessions
      /\ now \in Ticks /\ learn \in [Items -> State]
      /\ mastery \in [Items -> 0..3] /\ pool \in Seq(Candidate)
      /\ asked \subseteq {JobKey(j) : j \in Job} /\ pending \in Seq(Job)
      /\ shown \in Seq(Presentation)
  BY SessionTyped, Typed DEF RecordInv
<1>2. /\ SameScreens /\ review' \in [Items -> Row]
      /\ session' \in {session, Active}
      /\ UNCHANGED <<now, learn, mastery, jobVars>>
  BY FlagIs
<1> DEFINE s == shown[p].sentence
           keep == {c \in ToSet(pool) : c.sentence # s}
<1>3. /\ sentences' = [sentences EXCEPT ![s].status = "quarantined"]
      /\ pool' = Filtered(pool, keep)
  BY DEF Flag
<1>4. /\ s \in Sentences
      /\ sentences[s] \in [status : {"unborn", "validated", "quarantined"},
           lang : Langs \cup {""}, items : SUBSET Items, explained : BOOLEAN,
           parent : 0..MaxSentence]
      /\ sentences[s].status # "unborn"
  BY <1>1, ShownTyped DEF ContentTypeOK, RecordInv, ShownInv
<1> HIDE DEF s, keep
<1>5. ContentStep /\ \A t \in Sentences : t # s => StillReady(t)
  BY <1>1, <1>3, <1>4 DEF ContentStep, ContentTypeOK, BlankInv, Grown, StillReady
<1>6. pool' \in Seq(Candidate) /\ Showable(pool')
  BY <1>1, <1>3, FilteredIsShowable DEF RecordInv, PoolIsShowable
<1>7. \A k \in DOMAIN pool' : pool'[k].sentence # s /\ pool'[k].sentence \in Sentences
  <2>1. pool' \in Seq(Candidate \cap keep)
    BY <1>1, <1>3, FilteredKeeps
  <2>2. \A k \in DOMAIN pool' : pool'[k] \in Candidate \cap keep
    BY <2>1
  <2> QED BY <2>2 DEF Candidate, keep, s
<1>8. PoolIsShowable'
  BY <1>5, <1>6, <1>7 DEF PoolIsShowable, Showable, StillReady
<1>9. session' \in Sessions /\ SessionInv'
  BY <1>1, <1>2, SessionKept DEF RecordInv
<1>10. TypeOK'
  BY <1>1, <1>2, <1>5, <1>6, <1>9, TypedNext
     DEF ContentStep, Sessions, SameScreens, jobVars
<1>11. ShownInv'
  BY <1>1, <1>2, <1>5, ShownStays DEF RecordInv, SameScreens, ContentStep
<1>12. AnchorInv'
  BY <1>1, <1>2, <1>5, SameAnchorsStay DEF RecordInv
<1>13. ContextsAreNew'
  <2>1. pending \in Seq({j \in Job : JobOK(j)})
    BY <1>1, JobsSplit DEF RecordInv
  <2>2. pending' \in Seq({j \in Job : JobOK(j)'})
    BY <1>1, <1>2, <1>5, <2>1, JobsStay DEF jobVars
  <2> QED BY <1>10, <2>2, JobsNewNext
<1> QED BY <1>5, <1>8, <1>9, <1>10, <1>11, <1>12, <1>13 DEF RecordInv, ContentStep

-----------------------------------------------------------------------------
(* The worker *)

\* A new sentence takes a free place.
LEMMA StoredIs ==
  ASSUME ContentTypeOK, BlankInv, NEW job, job.lang \in Langs,
         NEW items \in SUBSET Items, NEW parent \in 0..MaxSentence,
         Stored(job, items, parent)
  PROVE  ContentStep /\ \A s \in Sentences : StillReady(s)
<1>1. PICK s \in Sentences :
        /\ sentences[s].status = "unborn"
        /\ sentences' = [sentences EXCEPT
             ![s] = [status |-> "validated", lang |-> job.lang, items |-> items,
                     explained |-> TRUE, parent |-> parent]]
  BY DEF Stored
<1> QED BY <1>1 DEF ContentStep, ContentTypeOK, BlankInv, Grown, StillReady

\* A batch is about items.
LEMMA TargetsAreItems ==
  ASSUME LearnerTypeOK, NEW role \in Roles
  PROVE  GenerationTargets(role) \in SUBSET Items
<1> DEFINE targets == RoleTargets(role)
           bare == Filtered(targets, {i \in Items : Ready(i, {}) = {}})
<1>1. \A T \in SUBSET Items : /\ Sorted(T, ByReview) \in Seq(Items)
                              /\ Sorted(T, ById) \in Seq(Items)
  <2> TAKE T \in SUBSET Items
  <2>1. Sorted(T, ByReview) \in Seq(T) /\ Sorted(T, ById) \in Seq(T)
    BY ItemsFinite, ReviewOrder, IdOrder, SortedIs
  <2> QED BY <2>1
<1>2. targets \in Seq(Items)
  <2>1. /\ {i \in Items : review[i].row /\ Exposures(i) > 0} \in SUBSET Items
        /\ {i \in Items : learn[i].active /\ Exposures(i) = 0} \in SUBSET Items
        /\ {i \in Items : Unexplored(i)} \in SUBSET Items
    OBVIOUS
  <2> QED BY <1>1, <2>1 DEF RoleTargets, Roles
<1> HIDE DEF targets
<1>3. bare \in Seq(Items)
  BY <1>2, FilteredPicks
<1>4. GenerationTargets(role) = {bare[n] : n \in DOMAIN bare \cap 1..PerBatch}
  BY DEF GenerationTargets, targets
<1> HIDE DEF bare
<1> QED BY <1>3, <1>4

\* The worker only adds content.
LEMMA WorkIs ==
  ASSUME RecordInv, Worker
  PROVE  /\ ContentStep /\ \A s \in Sentences : StillReady(s)
         /\ pending # <<>> /\ pending' = Tail(pending)
         /\ UNCHANGED <<now, learnerVars, pool, shown, session, asked>>
<1> DEFINE job == Head(pending)
<1>1. /\ TypeOK /\ ContentTypeOK /\ BlankInv /\ LearnerTypeOK
      /\ pending \in Seq(Job)
  BY DEF RecordInv, TypeOK
<1>2. /\ pending # <<>> /\ job \in Job
      /\ GenerateBatch(job) \/ ExplainItem(job) \/ GenerateReviewContext(job)
  BY <1>1 DEF Worker
<1> HIDE DEF job
<1>3. pending' = Tail(pending) /\ UNCHANGED <<now, learnerVars, pool, shown, session, asked>>
  BY <1>2 DEF GenerateBatch, ExplainItem, GenerateReviewContext, Worked
<1>4. ASSUME UNCHANGED sentences
      PROVE  ContentStep /\ \A s \in Sentences : StillReady(s)
  BY <1>1, <1>4, SentencesStay
<1>5. CASE GenerateBatch(job) /\ ~UNCHANGED sentences
  <2>1. job.role \in Roles /\ job.lang \in Langs
    BY <1>2, <1>5 DEF Job, GenerateBatch
  <2>2. PICK items \in SUBSET GenerationTargets(job.role) : Stored(job, items, 0)
    BY <1>5 DEF GenerateBatch
  <2>3. items \in SUBSET Items
    BY <1>1, <2>1, TargetsAreItems
  <2>4. 0 \in 0..MaxSentence BY SentencesAreNumbers
  <2> QED BY <1>1, <1>2, <1>3, <2>1, <2>2, <2>3, <2>4, StoredIs
<1>6. CASE ExplainItem(job) /\ ~UNCHANGED sentences
  <2> DEFINE s == job.sentence
  <2>1. s \in Sentences
    BY <1>2, <1>6 DEF Job, ExplainItem
  <2>2. sentences' = [sentences EXCEPT ![s].explained = TRUE]
    BY <1>6 DEF ExplainItem
  <2> HIDE DEF s
  <2>3. ContentStep /\ \A x \in Sentences : StillReady(x)
    <3>1. \A x \in Sentences :
            /\ sentences'[x].status = sentences[x].status
            /\ sentences'[x].items = sentences[x].items
            /\ sentences[x].explained => sentences'[x].explained
      BY <1>1, <2>1, <2>2 DEF ContentTypeOK
    <3>2. ContentTypeOK' BY <1>1, <2>1, <2>2 DEF ContentTypeOK
    <3> QED BY <1>1, <3>1, <3>2 DEF ContentStep, BlankInv, Grown, StillReady
  <2> QED BY <1>2, <1>3, <2>3
<1>7. CASE GenerateReviewContext(job) /\ ~UNCHANGED sentences
  <2>1. job.item \in Items /\ job.anchor \in Sentences /\ job.lang \in Langs
    BY <1>2, <1>7 DEF Job, GenerateReviewContext
  <2> DEFINE parent == IF job.stage = NearOriginal THEN job.anchor ELSE 0
  <2>2. Stored(job, {job.item}, parent)
    BY <1>7 DEF GenerateReviewContext
  <2>3. parent \in 0..MaxSentence
    <3>1. Sentences \subseteq 0..MaxSentence /\ 0 \in 0..MaxSentence
      BY SentencesAreNumbers
    <3> QED BY <2>1, <3>1
  <2>4. {job.item} \in SUBSET Items BY <2>1
  <2> HIDE DEF parent
  <2> QED BY <1>1, <1>2, <1>3, <2>1, <2>2, <2>3, <2>4, StoredIs
<1> QED BY <1>2, <1>3, <1>4, <1>5, <1>6, <1>7

\* The worker keeps the record.
LEMMA RecordWork ==
  ASSUME RecordInv, Worker
  PROVE  RecordInv'
<1>1. /\ TypeOK /\ ContentTypeOK /\ BlankInv
      /\ now \in Ticks /\ learn \in [Items -> State]
      /\ mastery \in [Items -> 0..3] /\ review \in [Items -> Row]
      /\ pool \in Seq(Candidate) /\ shown \in Seq(Presentation)
      /\ session \in Sessions
      /\ asked \subseteq {JobKey(j) : j \in Job} /\ pending \in Seq(Job)
  BY SessionTyped, Typed DEF RecordInv
<1>2. /\ ContentStep /\ \A s \in Sentences : StillReady(s)
      /\ pending # <<>> /\ pending' = Tail(pending)
      /\ UNCHANGED <<now, learn, mastery, review, pool, shown, session, asked>>
  BY WorkIs DEF learnerVars
<1>3. pending' \in Seq(Job)
  BY <1>1, <1>2
<1>4. TypeOK'
  BY <1>1, <1>2, <1>3, TypedNext DEF ContentStep, Sessions
<1>5. PoolIsShowable'
  <2>1. \A k \in DOMAIN pool : pool[k].sentence \in Sentences
    <3>1. \A k \in DOMAIN pool : pool[k] \in Candidate BY <1>1
    <3> QED BY <3>1 DEF Candidate
  <2>2. Showable(pool)'
    BY <1>1, <1>2, <2>1, ShowableStays DEF RecordInv, PoolIsShowable
  <2> QED BY <1>2, <2>2 DEF PoolIsShowable
<1>6. ShownInv'
  BY <1>1, <1>2, ShownStays DEF RecordInv, ContentStep
<1>7. AnchorInv'
  BY <1>1, <1>2, SameAnchorsStay DEF RecordInv
<1>8. SessionInv'
  BY <1>2 DEF RecordInv, SessionInv
<1>9. ContextsAreNew'
  <2> DEFINE Good == {j \in Job : JobOK(j)}
  <2>1. pending \in Seq(Good)
    BY <1>1, JobsSplit DEF RecordInv
  <2> HIDE DEF Good
  <2>2. Tail(pending) \in Seq(Good) BY <1>2, <2>1
  <2>3. pending' \in Seq({j \in Job : JobOK(j)'})
    BY <1>1, <1>2, <2>2, JobsStay DEF Good
  <2> QED BY <1>4, <2>3, JobsNewNext
<1> QED BY <1>2, <1>4, <1>5, <1>6, <1>7, <1>8, <1>9 DEF RecordInv, ContentStep

-----------------------------------------------------------------------------
(* The record as a whole *)

\* The record at the beginning.
LEMMA RecordInit == Init => RecordInv
<1> SUFFICES ASSUME Init PROVE RecordInv
  OBVIOUS
<1>1. 1 \in Ticks /\ 0 \in 0..MaxSession
  BY BoundsAssumption DEF Ticks
<1>2. ContentTypeOK /\ BlankInv
  <2> DEFINE Sentence == [status : {"unborn", "validated", "quarantined"},
                          lang : Langs \cup {""}, items : SUBSET Items,
                          explained : BOOLEAN, parent : 0..MaxSentence]
  <2>1. 0 \in 0..MaxSentence BY SentencesAreNumbers
  <2>2. Unborn \in Sentence /\ Unborn.items = {}
    BY <2>1 DEF Unborn
  <2>3. ASSUME NEW s \in Sentences, s <= Len(Corpus)
        PROVE  Seeded(s) \in Sentence /\ Seeded(s).status = "validated"
    <3> DEFINE c == Corpus[s]
    <3>1. Corpus \in Seq([lang : Langs, items : SUBSET Items, explained : BOOLEAN])
      BY CorpusAssumption
    <3>2. s \in 1..Len(Corpus)
      BY <2>3, <3>1, SentencesAreNumbers DEF Sentences
    <3>3. c \in [lang : Langs, items : SUBSET Items, explained : BOOLEAN]
      <4> DEFINE D == [lang : Langs, items : SUBSET Items, explained : BOOLEAN]
      <4>1. Corpus \in Seq(D) BY <3>1
      <4> HIDE DEF D
      <4>2. Corpus[s] \in D BY <3>2, <4>1
      <4> QED BY <4>2 DEF D
    <3>4. Seeded(s) = [Unborn EXCEPT !.status = "validated", !.lang = c.lang,
                         !.items = c.items, !.explained = c.explained]
      BY DEF Seeded
    <3> HIDE DEF c
    <3>5. Seeded(s) = [status |-> "validated", lang |-> c.lang, items |-> c.items,
                       explained |-> c.explained, parent |-> 0]
      BY <3>4 DEF Unborn
    <3>6. /\ c.lang \in Langs \cup {""} /\ c.items \in SUBSET Items
          /\ c.explained \in BOOLEAN
      BY <3>3
    <3> DEFINE l == c.lang
               i == c.items
               e == c.explained
               r == Seeded(s)
    <3>7. /\ r = [status |-> "validated", lang |-> l, items |-> i,
                          explained |-> e, parent |-> 0]
          /\ l \in Langs \cup {""} /\ i \in SUBSET Items /\ e \in BOOLEAN
      BY <3>5, <3>6
    <3> HIDE DEF l, i, e, r
    <3>8. r \in Sentence /\ r.status = "validated" BY <2>1, <3>7
    <3> QED BY <3>8 DEF r
  <2> HIDE DEF Sentence
  <2>4. sentences = [s \in Sentences |->
                       IF s <= Len(Corpus) THEN Seeded(s) ELSE Unborn]
    BY DEF Init
  <2>5. \A s \in Sentences : /\ sentences[s] \in Sentence
                            /\ sentences[s].status = "unborn" =>
                                 sentences[s].items = {}
    BY <2>2, <2>3, <2>4
  <2>6. sentences \in [Sentences -> Sentence]
    <3> DEFINE first(s) == IF s <= Len(Corpus) THEN Seeded(s) ELSE Unborn
    <3>1. sentences = [s \in Sentences |-> first(s)] BY <2>4
    <3>2. \A s \in Sentences : first(s) \in Sentence BY <2>2, <2>3
    <3> HIDE DEF first
    <3> QED BY <3>1, <3>2
  <2> QED BY <2>5, <2>6 DEF ContentTypeOK, BlankInv, Sentence
<1>3. learn \in [Items -> State] /\ AnchorInv
  <2>1. NotLearnt \in State /\ NotLearnt.anchor = 0
    <3>1. 0 \in 0..MaxTick /\ 0 \in 0..Passive /\ 0 \in 0..MaxSentence
      BY BoundsAssumption, PolicyAssumption, SentencesAreNumbers
    <3>2. Anchor \in Stages BY DEF Stages, Anchor, NewContext
    <3> QED BY <3>1, <3>2 DEF NotLearnt, State
  <2>2. learn = [i \in Items |-> NotLearnt] BY DEF Init
  <2> QED BY <2>1, <2>2 DEF AnchorInv
<1>4. mastery \in [Items -> 0..3] /\ review \in [Items -> Row]
  <2>1. NotMeasured \in 0..3 /\ NoRow \in Row
    BY DEF NotMeasured, NoRow, Row
  <2>2. /\ mastery = [i \in Items |-> NotMeasured]
        /\ review = [i \in Items |-> NoRow]
    BY DEF Init
  <2> QED BY <2>1, <2>2
<1>5. /\ pool \in Seq(Candidate) /\ PoolIsShowable
      /\ shown \in Seq(Presentation) /\ ShownInv
      /\ pending \in Seq(Job) /\ ContextsAreNew
      /\ asked \subseteq {JobKey(j) : j \in Job}
  <2>1. pool = <<>> /\ shown = <<>> /\ pending = <<>> /\ asked = {}
    BY DEF Init
  <2>2. DOMAIN pool = {} /\ DOMAIN shown = {} /\ DOMAIN pending = {}
    BY <2>1
  <2>3. PoolIsShowable /\ ShownInv /\ ContextsAreNew
    BY <2>2 DEF PoolIsShowable, Showable, ShownInv, ContextsAreNew
  <2> QED BY <2>1, <2>3
<1>6. session \in Sessions /\ SessionInv
  BY <1>1 DEF Init, Sessions, SessionInv
<1>7. now \in Ticks
  BY <1>1 DEF Init
<1>8. TypeOK
  BY <1>2, <1>3, <1>4, <1>5, <1>6, <1>7, Typed DEF Sessions
<1> QED BY <1>2, <1>3, <1>5, <1>6, <1>8 DEF RecordInv

\* The steps of the loop, one by one.
LEMMA Steps ==
  ASSUME Next
  PROVE  \/ \E lang \in Langs : Start(lang) \/ Resume(lang)
         \/ NextPresentation
         \/ \E p \in DOMAIN shown, i \in Items : \E signal \in Used[i] :
               Answer(p, i, signal)
         \/ \E p \in DOMAIN shown : SkipProbe(p)
         \/ \E p \in DOMAIN shown : Finalizes(p)
         \/ \E p \in DOMAIN shown : Flag(p)
         \/ /\ session' = [Active EXCEPT !.open = FALSE]
            /\ UNCHANGED <<now, sentences, learn, mastery, review, pool, shown,
                           jobVars>>
         \/ Tick
         \/ Worker
<1>1. CASE Screen
  BY <1>1, CompleteFinalizes, FinishIs DEF Screen, Answer
<1> QED BY <1>1 DEF Next

\* Every step keeps the record.
LEMMA RecordStep == RecordInv /\ [Next]_vars => RecordInv'
<1> SUFFICES ASSUME RecordInv, [Next]_vars PROVE RecordInv'
  OBVIOUS
<1>1. CASE Next
  BY <1>1, Steps, RecordStart, RecordNext, RecordAnswer, RecordSkip,
     RecordFinalize, RecordFlag, RecordClose, RecordTick, RecordWork
<1>2. CASE UNCHANGED vars
  BY <1>2, RecordClose DEF vars, learnerVars, jobVars
<1> QED BY <1>1, <1>2

\* What is on record can be relied on, in every state: it is the inductive
\* invariant of the theorems below.
THEOREM RecordIsKept == Spec => []RecordInv
  BY RecordInit, RecordStep, PTL DEF Spec

\* The state of the loop has its type.
THEOREM TypesAreKept == Spec => []TypeOK
<1>1. RecordInv => TypeOK BY DEF RecordInv
<1> QED BY <1>1, RecordIsKept, PTL

\* Every ready candidate can be shown as it is: its sentence is validated,
\* explained and has all its targets, and no two have the same key.
THEOREM PoolStaysShowable == Spec => []PoolIsShowable
<1>1. RecordInv => PoolIsShowable BY DEF RecordInv
<1> QED BY <1>1, RecordIsKept, PTL

\* Contexts are only asked for above near_original, and for an item that is in
\* the anchor sentence.
THEOREM ContextsStayNew == Spec => []ContextsAreNew
<1>1. RecordInv => ContextsAreNew BY DEF RecordInv
<1> QED BY <1>1, RecordIsKept, PTL

-----------------------------------------------------------------------------
(* Steps, as the history of the presentations sees them *)

\* Nothing is said, shown or withdrawn on any screen.
Silent == \A q \in DOMAIN shown : /\ shown'[q].said = shown[q].said
                                  /\ shown'[q].exposed = shown[q].exposed
                                  /\ shown'[q].done = shown[q].done

\* The item keeps its place on the ladder and its schedule row.
Unmoved(i) == /\ learn'[i].stage = learn[i].stage
              /\ learn'[i].active = learn[i].active
              /\ review'[i].row = review[i].row
              /\ review'[i].count = review[i].count

StillStep == SameScreens /\ Silent /\ \A i \in Items : Unmoved(i)

ShowStep(c) == /\ session.open /\ OnScreen = {}
               /\ c.role = "review" => Usable(c) # {}
               /\ shown' = Append(shown, Shown(c))
               /\ \A i \in Items : Unmoved(i)

HearStep(p, i, signal) ==
  /\ Heard(p, i, signal)
  /\ signal \in Signals /\ shown[p].said[i] = NoSignal /\ p \in OnScreen
  /\ \A j \in Items : /\ learn'[j].stage = learn[j].stage
                      /\ review'[j].count = review[j].count
                      /\ review[j].row => review'[j].row
                      /\ j # i => Unmoved(j)
  /\ learn'[i].active \/ review'[i].row =>
       learn[i].active \/ review[i].row \/ Promotes(i, signal)

FinalizeStep(p) ==
  /\ p \in OnScreen
  /\ SameScreens
  /\ shown'[p].exposed = Touched(p) /\ shown'[p].done = now
  /\ \A q \in DOMAIN shown : /\ shown'[q].said = shown[q].said
                             /\ q # p => /\ shown'[q].exposed = shown[q].exposed
                                         /\ shown'[q].done = shown[q].done
  /\ \A i \in Items :
       /\ learn'[i].active = learn[i].active /\ review'[i].row = review[i].row
       /\ learn'[i].stage =
            IF i \in Touched(p)
            THEN AdvancedStage(learn[i].stage, shown[p].stage, Failed(p, i))
            ELSE learn[i].stage
       /\ review'[i].count =
            IF i \in Touched(p) /\ review[i].row THEN Exposures(i) + 1
            ELSE review[i].count

FlagStep(p) ==
  /\ SameScreens
  /\ shown'[p].exposed = {}
  /\ \A q \in DOMAIN shown : /\ shown'[q].said = shown[q].said
                             /\ shown'[q].done = shown[q].done
                             /\ q # p => shown'[q].exposed = shown[q].exposed
  /\ \A i \in Items :
       /\ learn'[i].stage = learn[i].stage /\ learn'[i].active = learn[i].active
       /\ review'[i].row = review[i].row
       /\ review'[i].count =
            IF i \in shown[p].exposed /\ review[i].row THEN Exposures(i) - 1
            ELSE review[i].count

HistoryStep ==
  \/ StillStep
  \/ \E c \in Candidate : ShowStep(c)
  \/ \E p \in DOMAIN shown, i \in Items, signal \in Signals : HearStep(p, i, signal)
  \/ \E p \in DOMAIN shown : FinalizeStep(p)
  \/ \E p \in DOMAIN shown : FlagStep(p)

\* A step that leaves screens and items alone is a still one.
LEMMA StillIs ==
  ASSUME RecordInv, shown' = shown, learn' = learn, review' = review
  PROVE  StillStep
<1>1. shown \in Seq(Presentation) BY Typed DEF RecordInv
<1> QED BY <1>1 DEF StillStep, SameScreens, Silent, Unmoved

\* Starting, resuming and the next presentation show at most one candidate, a
\* review with a usable target.
LEMMA HistoryMaterialized ==
  ASSUME RecordInv,
         \/ \E lang \in Langs : Start(lang) \/ Resume(lang)
         \/ NextPresentation
  PROVE  StillStep \/ \E c \in Candidate : ShowStep(c)
<1>1. /\ learn \in [Items -> State] /\ shown \in Seq(Presentation)
      /\ pool \in Seq(Candidate) /\ ContentTypeOK /\ LearnerTypeOK
      /\ AnchorInv /\ PoolIsShowable
  BY Typed DEF RecordInv, TypeOK
<1>2. ASSUME NEW found, AnchorsOK(found.anchor), learn' = Anchored(found),
             UNCHANGED review
      PROVE  \A i \in Items : Unmoved(i)
  BY <1>1, <1>2, AnchoredOnly DEF Unmoved
<1>3. ASSUME NEW lang \in Langs, Start(lang) \/ Resume(lang)
      PROVE  StillStep
  <2> DEFINE found == Materialized(lang)
  <2>1. AccOK(found) BY <1>1, MaterializedIsOK
  <2>2. learn' = Anchored(found) /\ UNCHANGED <<review, shown>>
    BY <1>3 DEF Start, Resume
  <2> HIDE DEF found
  <2>3. AnchorsOK(found.anchor) BY <2>1 DEF AccOK
  <2>4. \A i \in Items : Unmoved(i) BY <1>2, <2>2, <2>3
  <2> QED BY <1>1, <2>2, <2>4 DEF StillStep, SameScreens, Silent
<1>4. ASSUME NextPresentation
      PROVE  StillStep \/ \E c \in Candidate : ShowStep(c)
  <2> DEFINE choice == SelectNext
             c == choice.pool[choice.pick]
  <2>1. ChoiceOK(choice)
    BY <1>1, SelectNextIsOK
  <2>2. /\ session.open /\ OnScreen = {}
        /\ learn' = Anchored(choice) /\ UNCHANGED review
        /\ \/ choice.pick # 0 /\ shown' = Append(shown, Shown(c))
           \/ UNCHANGED shown
    BY <1>4 DEF NextPresentation
  <2> HIDE DEF choice
  <2>3. \A i \in Items : Unmoved(i)
    <3>1. AnchorsOK(choice.anchor) BY <2>1 DEF ChoiceOK
    <3> QED BY <1>2, <2>2, <3>1
  <2>4. CASE choice.pick # 0 /\ shown' = Append(shown, Shown(c))
    <3>1. /\ choice.pool \in Seq(Candidate) /\ choice.pick \in DOMAIN choice.pool
          /\ c.role = "review" => Usable(c) # {}
      BY <2>1, <2>4 DEF ChoiceOK, Selectable
    <3>2. c \in Candidate BY <3>1
    <3> HIDE DEF c
    <3> QED BY <2>2, <2>3, <2>4, <3>1, <3>2 DEF ShowStep
  <2>5. CASE UNCHANGED shown
    BY <1>1, <2>3, <2>5 DEF StillStep, SameScreens, Silent
  <2> QED BY <2>2, <2>4, <2>5
<1> QED BY <1>3, <1>4

\* An answer, as the history sees it.
LEMMA HistoryAnswer ==
  ASSUME RecordInv, NEW p \in DOMAIN shown, NEW i \in Items,
         NEW signal \in Used[i], Answer(p, i, signal)
  PROVE  HearStep(p, i, signal) /\ signal \in Signals
<1>1. /\ now \in Ticks /\ mastery \in [Items -> 0..3] /\ review \in [Items -> Row]
  BY Typed DEF RecordInv
<1>2. /\ Heard(p, i, signal) /\ signal \in Signals /\ Evidence(i, signal)
      /\ shown[p].said[i] = NoSignal /\ p \in OnScreen
      /\ \A j \in Items : /\ learn'[j].stage = learn[j].stage
                          /\ j # i => learn'[j] = learn[j]
      /\ learn'[i].active => learn[i].active \/ Promotes(i, signal)
  BY AnswerIs
<1>3. /\ \A j \in Items : /\ review'[j].count = review[j].count
                          /\ j # i => review'[j] = review[j]
      /\ review'[i].row => review[i].row \/ learn[i].active \/ Promotes(i, signal)
      /\ review[i].row => review'[i].row
  BY <1>1, <1>2, EvidenceOnly
<1> QED BY <1>2, <1>3 DEF HearStep, Unmoved

\* Every step of the loop is one of these.
LEMMA HistorySteps ==
  ASSUME RecordInv, [Next]_vars
  PROVE  HistoryStep
<1>1. /\ now \in Ticks /\ learn \in [Items -> State] /\ review \in [Items -> Row]
      /\ shown \in Seq(Presentation)
  BY Typed DEF RecordInv
<1>2. ASSUME NEW p \in DOMAIN shown, SkipProbe(p) PROVE StillStep
  BY <1>2, SkipIs DEF StillStep, Silent, Unmoved
<1>3. ASSUME NEW p \in DOMAIN shown, Finalizes(p) PROVE FinalizeStep(p)
  BY <1>1, <1>3, FinalizedScreen, FinalizedRows DEF FinalizeStep, Finalizes
<1>4. ASSUME NEW p \in DOMAIN shown, Flag(p) PROVE FlagStep(p)
  BY <1>4, FlagIs DEF FlagStep
<1>5. ASSUME Tick \/ Worker \/ UNCHANGED vars PROVE StillStep
  <2>1. shown' = shown /\ learn' = learn /\ review' = review
    BY <1>5, WorkIs DEF Tick, vars, learnerVars
  <2> QED BY <2>1, StillIs
<1>6. ASSUME UNCHANGED <<now, sentences, learn, mastery, review, pool, shown, jobVars>>
      PROVE  StillStep
  BY <1>6, StillIs
<1>7. ASSUME NEW p \in DOMAIN shown, NEW i \in Items, NEW signal \in Used[i],
             Answer(p, i, signal)
      PROVE  \E s \in Signals : HearStep(p, i, s)
  BY <1>7, HistoryAnswer
<1>8. CASE Next
  BY <1>2, <1>3, <1>4, <1>5, <1>6, <1>7, <1>8, Steps, HistoryMaterialized
     DEF HistoryStep
<1> QED BY <1>5, <1>8 DEF HistoryStep

-----------------------------------------------------------------------------
(* The order of the screens, and what a step adds to them *)

\* Only the last screen of a session is open, and it has left no trace.
OrderInv ==
  \A p, q \in DOMAIN shown :
    p < q /\ shown[p].session = shown[q].session => shown[p].done # 0

FreshInv == \A p \in DOMAIN shown : shown[p].done = 0 => shown[p].exposed = {}

\* What there is after a candidate was shown.
LEMMA Appended ==
  ASSUME RecordInv, NEW c \in Candidate, ShowStep(c)
  PROVE  /\ Len(shown) \in Nat /\ DOMAIN shown = 1..Len(shown)
         /\ DOMAIN shown' = 1..(Len(shown) + 1)
         /\ \A p \in DOMAIN shown : shown'[p] = shown[p]
         /\ shown'[Len(shown) + 1] = Shown(c)
         /\ Shown(c).sentence = c.sentence /\ Shown(c).targets = c.targets
         /\ Shown(c).probe \in c.targets \cup {0}
         /\ Shown(c).probe = ProbeFor(c.targets)
         /\ Shown(c).role = c.role /\ Shown(c).reason = c.reason
         /\ Shown(c).session = session.id
         /\ Shown(c).done = 0 /\ Shown(c).exposed = {}
         /\ Shown(c).said = [i \in Items |-> NoSignal]
<1>1. shown \in Seq(Presentation) /\ TypeOK BY Typed DEF RecordInv
<1> DEFINE d == Shown(c)
<1>2. /\ d \in Presentation
      /\ d.sentence = c.sentence /\ d.targets = c.targets
      /\ d.probe \in c.targets \cup {0} /\ d.probe = ProbeFor(c.targets)
      /\ d.role = c.role /\ d.reason = c.reason /\ d.session = session.id
      /\ d.done = 0 /\ d.exposed = {} /\ d.said = [i \in Items |-> NoSignal]
  BY <1>1, ShownIsPresentation DEF ShowStep
<1>3. shown' = Append(shown, d)
  BY DEF ShowStep
<1> HIDE DEF d
<1>4. /\ Len(shown) \in Nat /\ DOMAIN shown = 1..Len(shown)
      /\ DOMAIN shown' = 1..(Len(shown) + 1)
      /\ \A p \in DOMAIN shown : shown'[p] = shown[p]
      /\ shown'[Len(shown) + 1] = d
  BY <1>1, <1>2, <1>3
<1> QED BY <1>2, <1>4 DEF d

\* Only the last screen of a session stays open.
LEMMA OrderStep ==
  ASSUME RecordInv, HistoryStep, OrderInv
  PROVE  OrderInv'
<1>1. CASE StillStep
  BY <1>1 DEF StillStep, SameScreens, Silent, OrderInv
<1>2. ASSUME NEW c \in Candidate, ShowStep(c) PROVE OrderInv'
  <2> SUFFICES ASSUME NEW p \in DOMAIN shown', NEW q \in DOMAIN shown', p < q,
                      shown'[p].session = shown'[q].session
               PROVE  shown'[p].done # 0
    BY DEF OrderInv
  <2>1. /\ Len(shown) \in Nat /\ DOMAIN shown = 1..Len(shown)
        /\ DOMAIN shown' = 1..(Len(shown) + 1)
        /\ \A r \in DOMAIN shown : shown'[r] = shown[r]
        /\ shown'[Len(shown) + 1].session = session.id
    BY <1>2, Appended
  <2>2. p \in DOMAIN shown /\ shown'[p] = shown[p]
    BY <2>1
  <2>3. CASE q \in DOMAIN shown
    BY <2>1, <2>2, <2>3 DEF OrderInv
  <2>4. CASE q = Len(shown) + 1
    <3>1. p \in InSession BY <2>1, <2>2, <2>4 DEF InSession
    <3> QED BY <1>2, <2>2, <3>1 DEF ShowStep, OnScreen
  <2> QED BY <2>1, <2>3, <2>4
<1>3. ASSUME NEW p \in DOMAIN shown, NEW i \in Items, NEW signal \in Signals,
             HearStep(p, i, signal)
      PROVE  OrderInv'
  BY <1>3 DEF HearStep, Heard, SameScreens, OrderInv
<1>4. ASSUME NEW p \in DOMAIN shown, FinalizeStep(p) PROVE OrderInv'
  <2>1. now # 0
    <3>1. now \in Ticks BY Typed DEF RecordInv
    <3> QED BY <3>1 DEF Ticks
  <2> QED BY <1>4, <2>1 DEF FinalizeStep, SameScreens, OrderInv
<1>5. ASSUME NEW p \in DOMAIN shown, FlagStep(p) PROVE OrderInv'
  BY <1>5 DEF FlagStep, SameScreens, OrderInv
<1> QED BY <1>1, <1>2, <1>3, <1>4, <1>5 DEF HistoryStep

\* An open screen leaves no trace.
LEMMA FreshStep ==
  ASSUME RecordInv, HistoryStep, FreshInv
  PROVE  FreshInv'
<1>1. CASE StillStep
  BY <1>1 DEF StillStep, SameScreens, Silent, FreshInv
<1>2. ASSUME NEW c \in Candidate, ShowStep(c) PROVE FreshInv'
  <2>1. /\ Len(shown) \in Nat /\ DOMAIN shown = 1..Len(shown)
        /\ DOMAIN shown' = 1..(Len(shown) + 1)
        /\ \A r \in DOMAIN shown : shown'[r] = shown[r]
        /\ shown'[Len(shown) + 1].exposed = {}
    BY <1>2, Appended
  <2> QED BY <2>1 DEF FreshInv
<1>3. ASSUME NEW p \in DOMAIN shown, NEW i \in Items, NEW signal \in Signals,
             HearStep(p, i, signal)
      PROVE  FreshInv'
  BY <1>3 DEF HearStep, Heard, SameScreens, FreshInv
<1>4. ASSUME NEW p \in DOMAIN shown, FinalizeStep(p) PROVE FreshInv'
  <2>1. now # 0
    <3>1. now \in Ticks BY Typed DEF RecordInv
    <3> QED BY <3>1 DEF Ticks
  <2> QED BY <1>4, <2>1 DEF FinalizeStep, SameScreens, FreshInv
<1>5. ASSUME NEW p \in DOMAIN shown, FlagStep(p) PROVE FreshInv'
  BY <1>5 DEF FlagStep, SameScreens, FreshInv
<1> QED BY <1>1, <1>2, <1>3, <1>4, <1>5 DEF HistoryStep

-----------------------------------------------------------------------------
(* A schedule needs a promotion *)

PromotedInv ==
  \A i \in Items : review[i].row \/ learn[i].active =>
    \E p \in DOMAIN shown : shown[p].said[i] \in PromotingSignals

\* Every step keeps PromotedInv.
LEMMA PromotedStep ==
  ASSUME RecordInv, HistoryStep, PromotedInv
  PROVE  PromotedInv'
<1>1. CASE StillStep
  BY <1>1 DEF StillStep, SameScreens, Silent, Unmoved, PromotedInv
<1>2. ASSUME NEW c \in Candidate, ShowStep(c) PROVE PromotedInv'
  <2>1. /\ Len(shown) \in Nat /\ DOMAIN shown = 1..Len(shown)
        /\ DOMAIN shown' = 1..(Len(shown) + 1)
        /\ \A r \in DOMAIN shown : shown'[r] = shown[r]
    BY <1>2, Appended
  <2>2. DOMAIN shown \subseteq DOMAIN shown' BY <2>1
  <2> QED BY <1>2, <2>1, <2>2 DEF PromotedInv, ShowStep, Unmoved
<1>3. ASSUME NEW p \in DOMAIN shown, NEW i \in Items, NEW signal \in Signals,
             HearStep(p, i, signal)
      PROVE  PromotedInv'
  <2> SUFFICES ASSUME NEW j \in Items, review'[j].row \/ learn'[j].active
               PROVE  \E q \in DOMAIN shown' : shown'[q].said[j] \in PromotingSignals
    BY DEF PromotedInv
  <2>1. /\ DOMAIN shown' = DOMAIN shown
        /\ \A q \in DOMAIN shown : q # p => shown'[q].said = shown[q].said
        /\ shown'[p].said = [shown[p].said EXCEPT ![i] = signal]
        /\ shown[p].said[i] = NoSignal
    BY <1>3 DEF HearStep, Heard, SameScreens
  <2>2. shown[p].said \in [Items -> Signals \cup {NoSignal}]
    <3>1. shown \in Seq(Presentation) BY Typed DEF RecordInv
    <3> QED BY <3>1, ShownTyped
  <2>3. \A q \in DOMAIN shown : shown[q].said[j] \in PromotingSignals =>
          shown'[q].said[j] \in PromotingSignals
    BY <2>1, <2>2 DEF PromotingSignals, NoSignal
  <2>4. CASE review[j].row \/ learn[j].active
    BY <2>1, <2>3, <2>4 DEF PromotedInv
  <2>5. CASE ~(review[j].row \/ learn[j].active)
    <3>1. j = i BY <1>3, <2>5 DEF HearStep, Unmoved
    <3>2. signal \in PromotingSignals
      BY <1>3, <2>5, <3>1 DEF HearStep, Promotes
    <3>3. shown'[p].said[j] = signal BY <2>1, <2>2, <3>1
    <3> QED BY <2>1, <3>2, <3>3
  <2> QED BY <2>4, <2>5
<1>4. ASSUME NEW p \in DOMAIN shown, FinalizeStep(p) PROVE PromotedInv'
  BY <1>4 DEF FinalizeStep, SameScreens, PromotedInv
<1>5. ASSUME NEW p \in DOMAIN shown, FlagStep(p) PROVE PromotedInv'
  BY <1>5 DEF FlagStep, SameScreens, PromotedInv
<1> QED BY <1>1, <1>2, <1>3, <1>4, <1>5 DEF HistoryStep

-----------------------------------------------------------------------------
(* The cached count *)

\* The presentations that count for an item.
Counted(i) == {p \in DOMAIN shown : i \in shown[p].exposed}

CountInv ==
  \A i \in Items : /\ review[i].count <= Exposures(i)
                   /\ ~review[i].row => review[i].count = 0

\* The exposures of an item are counted.
LEMMA CountedFinite ==
  ASSUME RecordInv, NEW i \in Items
  PROVE  /\ IsFiniteSet(Counted(i)) /\ Exposures(i) = Cardinality(Counted(i))
         /\ Exposures(i) \in Nat /\ review[i].count \in Nat
         /\ Exposures(i)' = Cardinality(Counted(i)')
<1>1. shown \in Seq(Presentation) /\ review \in [Items -> Row]
  BY Typed DEF RecordInv
<1>2. IsFiniteSet(Counted(i)) /\ Cardinality(Counted(i)) \in Nat
  BY <1>1, ShownFinite DEF Counted
<1>3. review[i].count \in Nat BY <1>1 DEF Row
<1> QED BY <1>2, <1>3 DEF Exposures, Counted

\* Every step keeps the cached count at or below the exposures.
LEMMA CountStep ==
  ASSUME RecordInv, HistoryStep, FreshInv, CountInv
  PROVE  CountInv'
<1> SUFFICES ASSUME NEW i \in Items
             PROVE  /\ review'[i].count <= Exposures(i)'
                    /\ ~review'[i].row => review'[i].count = 0
  BY DEF CountInv
<1> DEFINE P == Counted(i)
           Q == Counted(i)'
<1>1. /\ IsFiniteSet(P) /\ Exposures(i) = Cardinality(P) /\ Exposures(i) \in Nat
      /\ review[i].count \in Nat /\ Exposures(i)' = Cardinality(Q)
  BY CountedFinite
<1>2. review[i].count <= Exposures(i) /\ (~review[i].row => review[i].count = 0)
  BY DEF CountInv
<1>3. CASE StillStep
  <2>1. Q = P BY <1>3 DEF StillStep, SameScreens, Silent, Counted
  <2> HIDE DEF P, Q
  <2> QED BY <1>1, <1>2, <1>3, <2>1 DEF StillStep, Unmoved
<1>4. ASSUME NEW c \in Candidate, ShowStep(c)
      PROVE  /\ review'[i].count <= Exposures(i)'
             /\ ~review'[i].row => review'[i].count = 0
  <2>1. /\ Len(shown) \in Nat /\ DOMAIN shown = 1..Len(shown)
        /\ DOMAIN shown' = 1..(Len(shown) + 1)
        /\ \A r \in DOMAIN shown : shown'[r] = shown[r]
        /\ shown'[Len(shown) + 1].exposed = {}
    BY <1>4, Appended
  <2>2. Q = P BY <2>1 DEF Counted
  <2> HIDE DEF P, Q
  <2> QED BY <1>1, <1>2, <1>4, <2>2 DEF ShowStep, Unmoved
<1>5. ASSUME NEW p \in DOMAIN shown, NEW j \in Items, NEW signal \in Signals,
             HearStep(p, j, signal)
      PROVE  /\ review'[i].count <= Exposures(i)'
             /\ ~review'[i].row => review'[i].count = 0
  <2>1. Q = P BY <1>5 DEF HearStep, Heard, SameScreens, Counted
  <2> HIDE DEF P, Q
  <2> QED BY <1>1, <1>2, <1>5, <2>1 DEF HearStep, Unmoved
<1>6. ASSUME NEW p \in DOMAIN shown, FinalizeStep(p)
      PROVE  /\ review'[i].count <= Exposures(i)'
             /\ ~review'[i].row => review'[i].count = 0
  <2>1. p \notin P BY <1>6 DEF FinalizeStep, OnScreen, FreshInv, Counted
  <2>2. Q = IF i \in Touched(p) THEN P \cup {p} ELSE P
    BY <1>6, <2>1 DEF FinalizeStep, SameScreens, Counted
  <2>3. /\ review'[i].row = review[i].row
        /\ review'[i].count =
             IF i \in Touched(p) /\ review[i].row THEN Exposures(i) + 1
             ELSE review[i].count
    BY <1>6 DEF FinalizeStep
  <2> HIDE DEF P, Q
  <2>4. CASE i \in Touched(p)
    <3>1. Cardinality(Q) = Cardinality(P) + 1
      BY <1>1, <2>1, <2>2, <2>4, FS_AddElement
    <3> QED BY <1>1, <1>2, <2>3, <2>4, <3>1
  <2>5. CASE i \notin Touched(p)
    BY <1>1, <1>2, <2>2, <2>3, <2>5
  <2> QED BY <2>4, <2>5
<1>7. ASSUME NEW p \in DOMAIN shown, FlagStep(p)
      PROVE  /\ review'[i].count <= Exposures(i)'
             /\ ~review'[i].row => review'[i].count = 0
  <2>1. Q = P \ {p}
    BY <1>7 DEF FlagStep, SameScreens, Counted
  <2>2. p \in P <=> i \in shown[p].exposed
    BY DEF Counted
  <2>3. /\ review'[i].row = review[i].row
        /\ review'[i].count =
             IF i \in shown[p].exposed /\ review[i].row THEN Exposures(i) - 1
             ELSE review[i].count
    BY <1>7 DEF FlagStep
  <2> HIDE DEF P, Q
  <2>4. Cardinality(Q) = IF p \in P THEN Cardinality(P) - 1 ELSE Cardinality(P)
    BY <1>1, <2>1, FS_RemoveElement
  <2>5. CASE p \in P
    <3>1. Cardinality(P) # 0 BY <1>1, <2>5, FS_EmptySet
    <3> QED BY <1>1, <1>2, <2>2, <2>3, <2>4, <2>5, <3>1
  <2>6. CASE p \notin P
    BY <1>1, <1>2, <2>2, <2>3, <2>4, <2>6
  <2> QED BY <2>5, <2>6
<1> QED BY <1>3, <1>4, <1>5, <1>6, <1>7 DEF HistoryStep

-----------------------------------------------------------------------------
(* The ladder *)

\* A completed presentation that takes the item as far as a stage.
Earns(p, i, stage) == /\ shown[p].done # 0
                      /\ i \in shown[p].targets
                      /\ StepUp(shown[p].stage) >= stage
                      /\ shown[p].said[i] # "unknown" \/ shown[p].stage > stage

\* StageIsEarned, in these words.
LEMMA StageIs ==
  StageIsEarned <=> \A i \in Items : learn[i].stage # Anchor =>
                      \E p \in DOMAIN shown : Earns(p, i, learn[i].stage)
  BY DEF StageIsEarned, Earns

\* The same of the next state.
LEMMA StageIsNext ==
  ASSUME \A i \in Items : \A stage : stage = learn'[i].stage /\ stage # Anchor =>
           \E p \in DOMAIN shown' : Earns(p, i, stage)'
  PROVE  StageIsEarned'
  BY DEF StageIsEarned, Earns

\* Every step keeps StageIsEarned.
LEMMA StageStep ==
  ASSUME RecordInv, HistoryStep, StageIsEarned
  PROVE  StageIsEarned'
<1>0. /\ shown \in Seq(Presentation) /\ learn \in [Items -> State] /\ now \in Ticks
  BY Typed DEF RecordInv
<1> SUFFICES ASSUME NEW i \in Items, NEW stage, stage = learn'[i].stage,
                    stage # Anchor
             PROVE  \E p \in DOMAIN shown' : Earns(p, i, stage)'
  BY StageIsNext
<1>1. learn[i].stage # Anchor =>
        \E p \in DOMAIN shown : Earns(p, i, learn[i].stage)
  BY StageIs
<1>2. ASSUME stage = learn[i].stage, DOMAIN shown \subseteq DOMAIN shown',
             \A q \in DOMAIN shown : shown[q].done # 0 =>
               /\ shown'[q].done # 0 /\ shown'[q].targets = shown[q].targets
               /\ shown'[q].stage = shown[q].stage
               /\ shown'[q].said = shown[q].said
      PROVE  \E p \in DOMAIN shown' : Earns(p, i, stage)'
  BY <1>1, <1>2 DEF Earns
<1>3. CASE StillStep
  BY <1>2, <1>3 DEF StillStep, SameScreens, Silent, Unmoved
<1>4. ASSUME NEW c \in Candidate, ShowStep(c)
      PROVE  \E p \in DOMAIN shown' : Earns(p, i, stage)'
  <2>1. /\ DOMAIN shown \subseteq DOMAIN shown'
        /\ \A r \in DOMAIN shown : shown'[r] = shown[r]
    BY <1>4, Appended
  <2> QED BY <1>2, <1>4, <2>1 DEF ShowStep, Unmoved
<1>5. ASSUME NEW p \in DOMAIN shown, NEW j \in Items, NEW signal \in Signals,
             HearStep(p, j, signal)
      PROVE  \E q \in DOMAIN shown' : Earns(q, i, stage)'
  <2>1. shown[p].done = 0 BY <1>5 DEF HearStep, OnScreen
  <2> QED BY <1>2, <1>5, <2>1 DEF HearStep, Heard, SameScreens
<1>6. ASSUME NEW p \in DOMAIN shown, FinalizeStep(p)
      PROVE  \E q \in DOMAIN shown' : Earns(q, i, stage)'
  <2>1. now # 0 BY <1>0 DEF Ticks
  <2>2. CASE stage = learn[i].stage
    BY <1>2, <1>6, <2>1, <2>2 DEF FinalizeStep, SameScreens
  <2>3. CASE stage # learn[i].stage
    <3> DEFINE old == learn[i].stage
               s == shown[p].stage
               failed == Failed(p, i)
    <3>1. /\ i \in Touched(p)
          /\ stage = AdvancedStage(old, s, failed)
      BY <1>6, <2>3 DEF FinalizeStep
    <3>2. old \in Stages /\ s \in Stages /\ failed \in BOOLEAN
      BY <1>0, ShownTyped DEF State, Failed
    <3>3. failed <=> shown[p].said[i] = "unknown"
      BY DEF Failed
    <3> HIDE DEF failed
    <3>4. /\ StepUp(s) >= stage
          /\ ~failed \/ s > stage
      <4>1. stage # old BY <2>3
      <4> HIDE DEF old, s
      <4> QED BY <3>1, <3>2, <4>1
             DEF AdvancedStage, StepUp, StepDown, Stages, Anchor, NewContext
    <3>5. /\ DOMAIN shown' = DOMAIN shown
          /\ shown'[p].done = now /\ shown'[p].targets = shown[p].targets
          /\ shown'[p].stage = s /\ shown'[p].said = shown[p].said
      BY <1>6 DEF FinalizeStep, SameScreens
    <3>6. i \in shown[p].targets BY <3>1 DEF Touched
    <3>7. Earns(p, i, stage)'
      BY <2>1, <3>3, <3>4, <3>5, <3>6 DEF Earns
    <3> QED BY <3>5, <3>7
  <2> QED BY <2>2, <2>3
<1>7. ASSUME NEW p \in DOMAIN shown, FlagStep(p)
      PROVE  \E q \in DOMAIN shown' : Earns(q, i, stage)'
  BY <1>2, <1>7 DEF FlagStep, SameScreens
<1> QED BY <1>3, <1>4, <1>5, <1>6, <1>7 DEF HistoryStep

-----------------------------------------------------------------------------
(* Probes *)

\* The screens of its session before a screen, and those of them with a probe.
Before(p) == {q \in 1..(p - 1) : shown[q].session = shown[p].session}
Probed(p) == {q \in Before(p) : shown[q].probe # 0}

Spaced(p) == shown[p].probe # 0 =>
  /\ Cardinality(Probed(p)) < MaxProbes
  /\ \A q \in Probed(p) \cup {0} : Cardinality({r \in Before(p) : r > q}) >= ProbeGap
  /\ \A q \in Before(p) : shown[q].said[shown[p].probe] = NoSignal

\* ProbesAreSpaced, in these words.
LEMMA SpacedIs == ProbesAreSpaced <=> \A p \in DOMAIN shown : Spaced(p)
  BY DEF ProbesAreSpaced, Spaced, Probed, Before

\* The same of the next state.
LEMMA SpacedIsNext ==
  ASSUME \A p \in DOMAIN shown' : Spaced(p)'
  PROVE  ProbesAreSpaced'
  BY DEF ProbesAreSpaced, Spaced, Probed, Before

\* What was shown before a screen is not changed by what happens on it.
LEMMA SpacedStays ==
  ASSUME RecordInv, NEW p \in DOMAIN shown, Spaced(p),
         \A q \in 1..p : /\ shown'[q].session = shown[q].session
                         /\ shown'[q].probe = shown[q].probe,
         \A q \in Before(p) : shown'[q].said = shown[q].said
  PROVE  Spaced(p)'
<1>1. p \in Nat /\ p \in 1..p
  <2>1. shown \in Seq(Presentation) BY Typed DEF RecordInv
  <2> QED BY <2>1
<1>2. \A q \in 1..(p - 1) : q \in 1..p BY <1>1
<1>3. Before(p)' = Before(p) /\ Probed(p)' = Probed(p)
  BY <1>1, <1>2 DEF Before, Probed
<1>4. shown'[p].probe = shown[p].probe BY <1>1
<1> QED BY <1>3, <1>4 DEF Spaced

\* A new screen keeps the distance the pacing asks for.
LEMMA NewIsSpaced ==
  ASSUME RecordInv, NEW c \in Candidate, ShowStep(c),
         NEW n, n = Len(shown) + 1
  PROVE  Spaced(n)'
<1> DEFINE probe == ProbeFor(c.targets)
           probed == {q \in InSession : shown[q].probe # 0}
           since == IF probed = {} THEN InSession
                    ELSE {q \in InSession : q > Greatest(probed)}
<1>1. /\ Len(shown) \in Nat /\ DOMAIN shown = 1..Len(shown)
      /\ \A q \in DOMAIN shown : shown'[q] = shown[q]
      /\ shown'[n].probe = probe /\ shown'[n].session = session.id
  BY Appended
<1>2. /\ learn \in [Items -> State] /\ mastery \in [Items -> 0..3]
      /\ shown \in Seq(Presentation)
  BY Typed DEF RecordInv
<1>3. c.targets \in SUBSET Items BY DEF Candidate
<1>4. probe # 0 => /\ probe \in Items /\ Askable(probe) /\ PacingAllowsProbe
  BY <1>2, <1>3, ProbeIsAskable
<1> HIDE DEF probe
<1>5. (n - 1) = Len(shown) BY <1>1
<1>6. Before(n)' = InSession
  BY <1>1, <1>5 DEF Before, InSession
<1>7. Probed(n)' = probed
  <2>1. InSession \subseteq DOMAIN shown BY DEF InSession
  <2> QED BY <1>1, <1>6, <2>1 DEF Probed
<1>8. SUFFICES ASSUME probe # 0 PROVE Spaced(n)'
  BY <1>1 DEF Spaced
<1>9. Cardinality(probed) < MaxProbes /\ Cardinality(since) >= ProbeGap
  BY <1>4, <1>8 DEF PacingAllowsProbe
<1>10. InSession \in SUBSET DOMAIN shown /\ \A q \in InSession : q \in Nat /\ q > 0
  BY <1>1 DEF InSession
<1>11. ASSUME NEW q \in probed \cup {0}
       PROVE  Cardinality({r \in InSession : r > q}) >= ProbeGap
  <2> DEFINE later == {r \in InSession : r > q}
  <2>1. since \subseteq later
    <3>1. CASE probed = {}
      BY <1>10, <3>1
    <3>2. CASE probed # {}
      <4>1. probed \in SUBSET (0..Len(shown))
        BY <1>1, <1>10
      <4>2. Greatest(probed) \in probed /\ \A y \in probed : Greatest(probed) >= y
        <5> HIDE DEF probed
        <5> QED BY <1>1, <3>2, <4>1, GreatestExists
      <4>3. q \in Nat /\ Greatest(probed) \in Nat /\ Greatest(probed) >= q
        BY <4>1, <4>2
      <4> DEFINE g == Greatest(probed)
      <4> HIDE DEF g
      <4>4. \A r \in InSession : r > g => r > q
        BY <1>10, <4>3 DEF g
      <4> QED BY <3>2, <4>4 DEF g
    <3> QED BY <3>1, <3>2
  <2>2. later \in SUBSET DOMAIN shown /\ since \in SUBSET DOMAIN shown
    BY <1>10
  <2> HIDE DEF later, since
  <2>3. /\ IsFiniteSet(later) /\ Cardinality(later) \in Nat
        /\ Cardinality(since) \in Nat
    BY <1>2, <2>2, ShownFinite
  <2>4. Cardinality(since) <= Cardinality(later)
    BY <2>1, <2>3, FS_Subset
  <2>5. ProbeGap \in Nat BY PolicyAssumption
  <2> QED BY <1>9, <2>3, <2>4, <2>5 DEF later
<1>12. \A q \in InSession : shown[q].said[probe] = NoSignal
  BY <1>4, <1>8 DEF Askable
<1>13. \A q \in InSession : shown'[q].said[shown'[n].probe] = NoSignal
  BY <1>1, <1>10, <1>12
<1> HIDE DEF probed, since
<1> QED BY <1>6, <1>7, <1>9, <1>11, <1>13 DEF Spaced

\* Every step keeps the probes apart.
LEMMA SpacedStep ==
  ASSUME RecordInv, HistoryStep, OrderInv, ProbesAreSpaced
  PROVE  ProbesAreSpaced'
<1>1. shown \in Seq(Presentation) BY Typed DEF RecordInv
<1>2. /\ Len(shown) \in Nat /\ DOMAIN shown = 1..Len(shown)
      /\ \A p \in DOMAIN shown : Spaced(p)
      /\ \A p \in DOMAIN shown : \A q \in 1..p : q \in DOMAIN shown
      /\ \A p \in DOMAIN shown : Before(p) \subseteq DOMAIN shown
  BY <1>1, SpacedIs DEF Before
<1>3. ASSUME SameScreens, NEW p \in DOMAIN shown,
             \A q \in Before(p) : shown'[q].said = shown[q].said
      PROVE  Spaced(p)'
  BY <1>2, <1>3, SpacedStays DEF SameScreens
<1>4. CASE StillStep
  <2>1. \A p \in DOMAIN shown : Spaced(p)'
    BY <1>2, <1>3, <1>4 DEF StillStep, Silent
  <2> QED BY <1>4, <2>1, SpacedIsNext DEF StillStep, SameScreens
<1>5. ASSUME NEW c \in Candidate, ShowStep(c) PROVE ProbesAreSpaced'
  <2>1. /\ DOMAIN shown' = 1..(Len(shown) + 1)
        /\ \A r \in DOMAIN shown : shown'[r] = shown[r]
    BY <1>5, Appended
  <2>2. \A p \in DOMAIN shown : Spaced(p)'
    BY <1>2, <2>1, SpacedStays
  <2>3. \A n : n = Len(shown) + 1 => Spaced(n)' BY <1>5, NewIsSpaced
  <2>4. \A p \in DOMAIN shown' : p \in DOMAIN shown \/ p = Len(shown) + 1
    BY <1>2, <2>1
  <2> QED BY <2>2, <2>3, <2>4, SpacedIsNext
<1>6. ASSUME NEW p0 \in DOMAIN shown, NEW i \in Items, NEW signal \in Signals,
             HearStep(p0, i, signal)
      PROVE  ProbesAreSpaced'
  <2>1. /\ SameScreens /\ shown[p0].done = 0
        /\ \A q \in DOMAIN shown : q # p0 => shown'[q].said = shown[q].said
    BY <1>6 DEF HearStep, Heard, OnScreen
  <2>2. ASSUME NEW p \in DOMAIN shown PROVE Spaced(p)'
    <3>1. \A q \in Before(p) : q \in DOMAIN shown /\ q # p0
      BY <1>2, <2>1 DEF Before, OrderInv
    <3> QED BY <1>3, <2>1, <3>1
  <2> QED BY <2>1, <2>2, SpacedIsNext DEF SameScreens
<1>7. ASSUME NEW p0 \in DOMAIN shown, FinalizeStep(p0) \/ FlagStep(p0)
      PROVE  ProbesAreSpaced'
  <2>1. SameScreens /\ \A q \in DOMAIN shown : shown'[q].said = shown[q].said
    BY <1>7 DEF FinalizeStep, FlagStep
  <2>2. \A p \in DOMAIN shown : Spaced(p)'
    BY <1>2, <1>3, <2>1
  <2> QED BY <2>1, <2>2, SpacedIsNext DEF SameScreens
<1> QED BY <1>4, <1>5, <1>6, <1>7 DEF HistoryStep

-----------------------------------------------------------------------------
(* The history is kept *)

HistoryInv == /\ RecordInv
              /\ OrderInv
              /\ FreshInv
              /\ PromotedInv
              /\ CountInv
              /\ StageIsEarned
              /\ ProbesAreSpaced

\* The history at the beginning.
LEMMA HistoryInit == Init => HistoryInv
<1> SUFFICES ASSUME Init PROVE HistoryInv
  OBVIOUS
<1>1. RecordInv BY RecordInit
<1>2. DOMAIN shown = {}
  <2>1. shown = <<>> BY DEF Init
  <2> QED BY <2>1
<1>3. \A i \in Items : /\ learn[i].stage = Anchor /\ ~learn[i].active
                       /\ ~review[i].row /\ review[i].count = 0
  BY DEF Init, NotLearnt, NoRow
<1>4. OrderInv /\ FreshInv /\ ProbesAreSpaced
  BY <1>2 DEF OrderInv, FreshInv, ProbesAreSpaced
<1>5. PromotedInv /\ StageIsEarned
  BY <1>3 DEF PromotedInv, StageIsEarned
<1>6. CountInv
  <2>1. \A i \in Items : Exposures(i) \in Nat
    BY <1>1, CountedFinite
  <2> QED BY <1>3, <2>1 DEF CountInv
<1> QED BY <1>1, <1>4, <1>5, <1>6 DEF HistoryInv

\* Every step keeps the history.
LEMMA HistoryKept == HistoryInv /\ [Next]_vars => HistoryInv'
<1> SUFFICES ASSUME HistoryInv, [Next]_vars PROVE HistoryInv'
  OBVIOUS
<1>1. RecordInv /\ HistoryStep
  BY HistorySteps DEF HistoryInv
<1>2. RecordInv'
  BY <1>1, RecordStep
<1> QED BY <1>1, <1>2, OrderStep, FreshStep, PromotedStep, CountStep, StageStep,
           SpacedStep DEF HistoryInv

\* The history of the presentations explains the state of the items, in every
\* state: the inductive invariant of the theorems below.
THEOREM HistoryIsKept == Spec => []HistoryInv
  BY HistoryInit, HistoryKept, PTL DEF Spec

\* An item has a review row only if it was called unknown or uncertain once
\* (interactions.py, _apply_explicit_evidence).
THEOREM SchedulesNeedPromotion == Spec => []ScheduleNeedsPromotion
<1>1. HistoryInv => ScheduleNeedsPromotion
  BY DEF HistoryInv, PromotedInv, ScheduleNeedsPromotion
<1> QED BY <1>1, HistoryIsKept, PTL

\* The cached exposure count is at most the exposures that still count, whatever
\* the order of completions and flags (presentation.py, content_flag.py).
THEOREM CacheStaysBelow == Spec => []CacheNeverOvercounts
<1>1. HistoryInv => CacheNeverOvercounts
  BY DEF HistoryInv, CountInv, CacheNeverOvercounts
<1> QED BY <1>1, HistoryIsKept, PTL

\* No item is on a stage that no completed presentation has taken it to
\* (progression.py, advance_context_stage).
THEOREM StagesAreEarned == Spec => []StageIsEarned
<1>1. HistoryInv => StageIsEarned BY DEF HistoryInv
<1> QED BY <1>1, HistoryIsKept, PTL

\* Probes of a session keep their number, their distance and off what was said
\* (probe.py, read_pacing).
THEOREM ProbesKeepDistance == Spec => []ProbesAreSpaced
<1>1. HistoryInv => ProbesAreSpaced BY DEF HistoryInv
<1> QED BY <1>1, HistoryIsKept, PTL

-----------------------------------------------------------------------------
(* What a step never does *)

Timely(p) == LET c == shown'[p]
             IN  c.role = "review" =>
                   \E i \in c.targets : /\ review[i].row /\ Eligible(i)
                                        /\ c.reason = "fsrs_due" => Due(i)

\* A review that is put on the screen has a target that may be shown now.
LEMMA TimelyStep ==
  ASSUME RecordInv, [Next]_vars
  PROVE  \A p \in DOMAIN shown' \ DOMAIN shown : Timely(p)
<1>1. HistoryStep BY HistorySteps
<1>2. ASSUME NEW c \in Candidate, ShowStep(c)
      PROVE  \A p \in DOMAIN shown' \ DOMAIN shown : Timely(p)
  <2> SUFFICES ASSUME NEW p \in DOMAIN shown' \ DOMAIN shown,
                      shown'[p].role = "review"
               PROVE  \E i \in shown'[p].targets :
                         /\ review[i].row /\ Eligible(i)
                         /\ shown'[p].reason = "fsrs_due" => Due(i)
    BY DEF Timely
  <2>1. /\ Len(shown) \in Nat /\ DOMAIN shown = 1..Len(shown)
        /\ DOMAIN shown' = 1..(Len(shown) + 1)
        /\ shown'[Len(shown) + 1] = Shown(c)
        /\ Shown(c).targets = c.targets /\ Shown(c).role = c.role
        /\ Shown(c).reason = c.reason
    BY <1>2, Appended
  <2>2. p = Len(shown) + 1 BY <2>1
  <2>3. shown'[p].targets = c.targets /\ shown'[p].reason = c.reason
    BY <2>1, <2>2
  <2>4. Usable(c) # {} BY <1>2, <2>1, <2>2 DEF ShowStep
  <2>5. PICK i \in c.targets : /\ review[i].row
                               /\ IF c.reason = "fsrs_due" THEN Due(i)
                                  ELSE Eligible(i)
    BY <2>4 DEF Usable
  <2> QED BY <2>3, <2>5 DEF Due
<1>3. ASSUME SameScreens
      PROVE  \A p \in DOMAIN shown' \ DOMAIN shown : Timely(p)
  BY <1>3 DEF SameScreens
<1> QED BY <1>1, <1>2, <1>3
       DEF HistoryStep, StillStep, HearStep, Heard, FinalizeStep, FlagStep

\* The anchor of an item is set once, or after a quarantine.
Moored(i) == learn[i].anchor # 0 /\ learn'[i].anchor # learn[i].anchor
               => Quarantined(learn[i].anchor)

\* A step moves the anchor of an item only off a quarantined sentence.
LEMMA MooredStep ==
  ASSUME RecordInv, [Next]_vars
  PROVE  \A i \in Items : Moored(i)
<1>1. /\ now \in Ticks /\ learn \in [Items -> State] /\ review \in [Items -> Row]
      /\ shown \in Seq(Presentation) /\ pool \in Seq(Candidate)
      /\ ContentTypeOK /\ LearnerTypeOK /\ AnchorInv /\ PoolIsShowable
  BY Typed DEF RecordInv, TypeOK
<1>2. ASSUME NEW found, AnchorsOK(found.anchor), learn' = Anchored(found)
      PROVE  \A i \in Items : Moored(i)
  BY <1>1, <1>2, AnchoredOnly DEF Moored, AnchorsOK
<1>3. ASSUME NEW lang \in Langs, Start(lang) \/ Resume(lang)
      PROVE  \A i \in Items : Moored(i)
  <2> DEFINE found == Materialized(lang)
  <2>1. AccOK(found) BY <1>1, MaterializedIsOK
  <2>2. learn' = Anchored(found)
    BY <1>3 DEF Start, Resume
  <2> HIDE DEF found
  <2> QED BY <1>2, <2>1, <2>2 DEF AccOK
<1>4. ASSUME NextPresentation PROVE \A i \in Items : Moored(i)
  <2> DEFINE choice == SelectNext
  <2>1. ChoiceOK(choice)
    BY <1>1, SelectNextIsOK
  <2>2. learn' = Anchored(choice)
    BY <1>4 DEF NextPresentation
  <2> HIDE DEF choice
  <2> QED BY <1>2, <2>1, <2>2 DEF ChoiceOK
<1>5. ASSUME \A i \in Items : learn'[i].anchor = learn[i].anchor
      PROVE  \A i \in Items : Moored(i)
  BY <1>5 DEF Moored
<1>6. ASSUME NEW p \in DOMAIN shown, NEW i \in Items, NEW signal \in Used[i],
             Answer(p, i, signal)
      PROVE  \A j \in Items : Moored(j)
  <2>1. /\ \A j \in Items : j # i => learn'[j] = learn[j]
        /\ learn'[i].anchor = learn[i].anchor \/ learn[i].anchor = 0
    BY <1>6, AnswerIs
  <2> QED BY <2>1 DEF Moored
<1>7. ASSUME NEW p \in DOMAIN shown, SkipProbe(p) PROVE \A i \in Items : Moored(i)
  BY <1>5, <1>7, SkipIs
<1>8. ASSUME NEW p \in DOMAIN shown, Finalizes(p) PROVE \A i \in Items : Moored(i)
  BY <1>1, <1>5, <1>8, FinalizedRows DEF Finalizes
<1>9. ASSUME learn' = learn PROVE \A i \in Items : Moored(i)
  BY <1>5, <1>9
<1>10. ASSUME NEW p \in DOMAIN shown, Flag(p) PROVE learn' = learn
  BY <1>10 DEF Flag
<1>11. ASSUME Tick \/ Worker \/ UNCHANGED vars PROVE learn' = learn
  BY <1>11, WorkIs DEF Tick, vars, learnerVars
<1>12. CASE Next
  BY <1>3, <1>4, <1>6, <1>7, <1>8, <1>9, <1>10, <1>11, <1>12, Steps
<1> QED BY <1>9, <1>11, <1>12

\* A fall of an item, and the failed presentation that is completed by it.
Falls(i) ==
  learn'[i].stage < learn[i].stage =>
    \E p \in DOMAIN shown : /\ shown[p].done = 0 /\ shown'[p].done # 0
                            /\ shown[p].said[i] = "unknown"
                            /\ i \in shown'[p].exposed
                            /\ learn'[i].stage = StepDown(shown[p].stage)

\* A step that lowers the stage of an item completes a failed presentation of it.
LEMMA FallsStep ==
  ASSUME RecordInv, [Next]_vars
  PROVE  \A i \in Items : Falls(i)
<1>1. HistoryStep BY HistorySteps
<1>2. /\ now \in Ticks /\ learn \in [Items -> State] /\ shown \in Seq(Presentation)
  BY Typed DEF RecordInv
<1> SUFFICES ASSUME NEW i \in Items, learn'[i].stage < learn[i].stage
             PROVE  \E p \in DOMAIN shown :
                       /\ shown[p].done = 0 /\ shown'[p].done # 0
                       /\ shown[p].said[i] = "unknown"
                       /\ i \in shown'[p].exposed
                       /\ learn'[i].stage = StepDown(shown[p].stage)
  BY DEF Falls
<1>3. learn[i].stage \in Stages BY <1>2 DEF State
<1>4. learn'[i].stage # learn[i].stage BY <1>3 DEF Stages, Anchor, NewContext
<1>5. PICK p \in DOMAIN shown : FinalizeStep(p)
  BY <1>1, <1>4 DEF HistoryStep, StillStep, ShowStep, HearStep, FlagStep, Unmoved
<1> DEFINE old == learn[i].stage
           new == learn'[i].stage
           s == shown[p].stage
           failed == Failed(p, i)
<1>6. i \in Touched(p) /\ new = AdvancedStage(old, s, failed)
  BY <1>4, <1>5 DEF FinalizeStep
<1>7. s \in Stages /\ old \in Stages /\ new < old
  BY <1>2, <1>3, ShownTyped
<1>8. failed <=> shown[p].said[i] = "unknown" BY DEF Failed
<1>9. now # 0 BY <1>2 DEF Ticks
<1>10. shown[p].done = 0 BY <1>5 DEF FinalizeStep, OnScreen
<1>11. shown'[p].done # 0 /\ i \in shown'[p].exposed
  BY <1>5, <1>6, <1>9 DEF FinalizeStep
<1> HIDE DEF old, new, s, failed
<1>12. failed /\ new = StepDown(s)
  BY <1>6, <1>7 DEF AdvancedStage, StepUp, StepDown, Stages, Anchor, NewContext
<1> QED BY <1>8, <1>10, <1>11, <1>12 DEF new, s

\* A review is shown only for a target that may be shown now, even when its
\* candidate is older than the schedule (selection.py, _select_review).
THEOREM ReviewsAreTimely == Spec => ReviewIsTimely
<1>1. RecordInv /\ [Next]_vars =>
        [\A p \in DOMAIN shown' \ DOMAIN shown : Timely(p)]_vars
  BY TimelyStep
<1> QED BY <1>1, RecordIsKept, PTL DEF Spec, ReviewIsTimely, Timely

\* The anchor of an item is set once, or after a quarantine
\* (selection.py, _resolve_anchor).
THEOREM AnchorsAreKept == Spec => AnchorIsKept
<1>1. RecordInv /\ [Next]_vars => [\A i \in Items : Moored(i)]_vars
  BY MooredStep
<1> QED BY <1>1, RecordIsKept, PTL DEF Spec, AnchorIsKept, Moored

\* An item comes down the ladder only by a failed presentation, to one step
\* below what was shown (progression.py).
THEOREM StagesFallOnFailure == Spec => StageFallsOnFailure
<1>1. RecordInv /\ [Next]_vars => [\A i \in Items : Falls(i)]_vars
  BY FallsStep
<1> QED BY <1>1, RecordIsKept, PTL DEF Spec, StageFallsOnFailure, Falls

-----------------------------------------------------------------------------
(* Reviews have reasons, and what has a schedule is being learnt *)

\* A part of a pool has the reasons of the pool.
LEMMA PartIsReasoned ==
  ASSUME NEW q, Reasoned(q), NEW r,
         \A k \in DOMAIN r : \E m \in DOMAIN q : r[k] = q[m]
  PROVE  Reasoned(r)
  BY DEF Reasoned

\* What is removed from a pool leaves a part of it.
LEMMA RemovedIsReasoned ==
  ASSUME NEW q \in Seq(Candidate), Reasoned(q), NEW n \in DOMAIN q
  PROVE  Reasoned(RemoveAt(q, n))
<1> DEFINE r == RemoveAt(q, n)
<1>1. \A k \in DOMAIN r : \E m \in DOMAIN q : r[k] = q[m]
  <2>1. /\ DOMAIN r = 1..(Len(q) - 1)
        /\ \A k \in 1..(Len(q) - 1) : r[k] = IF k < n THEN q[k] ELSE q[k + 1]
    BY RemovedIs
  <2>2. \A k \in 1..(Len(q) - 1) : k \in DOMAIN q /\ k + 1 \in DOMAIN q
    OBVIOUS
  <2> HIDE DEF r
  <2> QED BY <2>1, <2>2
<1> HIDE DEF r
<1> QED BY <1>1, PartIsReasoned DEF r

\* So does a filter.
LEMMA FilteredIsReasoned ==
  ASSUME NEW q \in Seq(Candidate), Reasoned(q), NEW keep
  PROVE  Reasoned(Filtered(q, keep))
<1> DEFINE r == Filtered(q, keep)
<1>1. r \in Seq(Candidate) /\ Picked(q, keep, r, Len(q))
  BY FilteredPicks
<1> HIDE DEF r
<1>2. \A k \in DOMAIN r : \E m \in DOMAIN q : r[k] = q[m]
  BY <1>1 DEF Picked
<1> QED BY <1>2, PartIsReasoned DEF r

\* An anchor is shown again as a reinforcement.
LEMMA AgainIsReasoned ==
  ASSUME NEW q \in Seq(Candidate), Reasoned(q), NEW anchors
  PROVE  Reasoned(q \o ReusedAnchor(q, anchors))
<1> DEFINE again == ReusedAnchor(q, anchors)
           c == again[1]
<1>1. \/ again = <<>>
      \/ again = <<c>> /\ c.reason = "reinforcement"
  BY DEF ReusedAnchor
<1> HIDE DEF again
<1>2. CASE again = <<>>
  <2>1. q \o again = q BY <1>2
  <2> QED BY <2>1 DEF again
<1>3. CASE again = <<c>> /\ c.reason = "reinforcement"
  <2> HIDE DEF c
  <2>1. /\ DOMAIN (q \o again) = 1..(Len(q) + 1)
        /\ Len(q) \in Nat /\ DOMAIN q = 1..Len(q)
        /\ \A k \in 1..(Len(q) + 1) :
             (q \o again)[k] = IF k = Len(q) + 1 THEN c ELSE q[k]
    BY <1>3
  <2>2. \A k \in 1..(Len(q) + 1) : k = Len(q) + 1 \/ k \in DOMAIN q
    BY <2>1
  <2>3. Reasoned(q \o again)
    BY <1>3, <2>1, <2>2 DEF Reasoned, Reasons
  <2> QED BY <2>3 DEF again
<1> QED BY <1>1, <1>2, <1>3

\* The pool that select_next leaves.
LEMMA ChoiceIsReasoned ==
  ASSUME ContentTypeOK, LearnerTypeOK, AnchorInv, pool \in Seq(Candidate),
         PoolIsShowable, Reasoned(pool), shown \in Seq(Presentation)
  PROVE  Reasoned(SelectNext.pool)
<1> DEFINE first == Select(pool, Ranked[1])
           made == Materialized(session.lang)
           selected == [n \in 1..3 |-> Select(made.pool, Ranked[n])]
           found == {n \in 1..3 : selected[n] # 0}
           again == ReusedAnchor(made.pool, made.anchor)
           choice == SelectNext
<1>1. choice = SelectFirst(Ranked, first)
  BY DEF SelectNext
<1>2. made.pool \in Seq(Candidate) /\ Reasoned(made.pool)
  BY MaterializedMeets DEF Filling, AccOK, Acc
<1>3. Reasoned(made.pool \o again)
  <2> HIDE DEF made
  <2> QED BY <1>2, AgainIsReasoned
<1>4. \/ choice.pool = pool
      \/ choice.pool = made.pool
      \/ choice.pool = made.pool \o again
  <2>1. CASE first # 0
    <3>1. choice = Kept(first) BY <1>1, <2>1 DEF SelectFirst
    <3> QED BY <3>1 DEF Kept
  <2>2. CASE first = 0 /\ found = {}
    <3>1. choice = Fallback(made, again)
      BY <1>1, <2>2 DEF SelectFirst, SelectAfter
    <3> HIDE DEF made, again, choice
    <3> QED BY <3>1 DEF Fallback, Refilled
  <2>3. CASE first = 0 /\ found # {}
    <3>1. choice = Refilled(made, made.pool, selected[Least(found)])
      BY <1>1, <2>3 DEF SelectFirst, SelectAfter
    <3> HIDE DEF made, selected, found, choice
    <3> QED BY <3>1 DEF Refilled
  <2> QED BY <2>1, <2>2, <2>3
<1> HIDE DEF made, again, choice
<1> QED BY <1>2, <1>3, <1>4 DEF choice

\* An item that has a schedule is being learnt.
ActiveInv == \A i \in Items : review[i].row => learn[i].active

\* The record, and what it says of the items that are learnt.
LearnerInv == RecordInv /\ ActiveInv /\ Reasoned(pool)

\* A promotion makes the item one that is being learnt.
LEMMA PromotedActive ==
  ASSUME learn \in [Items -> State], NEW i \in Items, NEW s, NEW signal,
         learn[i].active \/ Promotes(i, signal)
  PROVE  Promoted(i, s, signal).active
<1>1. learn[i] \in State OBVIOUS
<1>2. CASE Promotes(i, signal)
  <2> DEFINE anchor == IF learn[i].anchor = 0 THEN s ELSE learn[i].anchor
  <2>1. Promoted(i, s, signal) = [learn[i] EXCEPT !.active = TRUE, !.anchor = anchor]
    BY <1>1, <1>2 DEF Promoted, State
  <2> HIDE DEF anchor
  <2> QED BY <1>1, <2>1 DEF State
<1>3. CASE ~Promotes(i, signal)
  BY <1>3 DEF Promoted
<1> QED BY <1>2, <1>3

\* An answer leaves what has a schedule being learnt.
LEMMA AnswerActive ==
  ASSUME RecordInv, ActiveInv, NEW p \in DOMAIN shown, NEW i \in Items,
         NEW signal \in Used[i], Answer(p, i, signal)
  PROVE  ActiveInv'
<1>1. /\ now \in Ticks /\ learn \in [Items -> State]
      /\ mastery \in [Items -> 0..3] /\ review \in [Items -> Row]
  BY Typed DEF RecordInv
<1>2. /\ signal \in Signals /\ Evidence(i, signal)
      /\ \A j \in Items : j # i => learn'[j] = learn[j]
  BY AnswerIs
<1>3. /\ \A j \in Items : j # i => review'[j] = review[j]
      /\ review'[i].row => learn[i].active \/ Promotes(i, signal)
  BY <1>1, <1>2, EvidenceOnly DEF ActiveInv
<1>4. review'[i].row => learn'[i].active
  <2> DEFINE new == Promoted(i, shown[p].sentence, signal)
  <2>1. SUFFICES ASSUME review'[i].row PROVE learn'[i].active
    OBVIOUS
  <2>2. new.active BY <1>1, <1>3, <2>1, PromotedActive
  <2> HIDE DEF new
  <2>3. CASE SelfReport(p, i, signal)
    <3>1. learn' = [learn EXCEPT ![i] = new]
      BY <2>3 DEF SelfReport, new
    <3> QED BY <1>1, <2>2, <3>1
  <2>4. CASE AnswerProbe(p, i, signal)
    <3> DEFINE late == [new EXCEPT !.asked = now]
    <3>1. learn' = [learn EXCEPT ![i] = late]
      BY <2>4 DEF AnswerProbe, new
    <3>2. late.active = new.active OBVIOUS
    <3> HIDE DEF late
    <3> QED BY <1>1, <2>2, <3>1, <3>2
  <2> QED BY <2>3, <2>4 DEF Answer
<1> QED BY <1>2, <1>3, <1>4 DEF ActiveInv

\* Starting, resuming and the next presentation leave it so, with a pool of
\* reasons.
LEMMA LearnerMaterialized ==
  ASSUME LearnerInv,
         \/ \E lang \in Langs : Start(lang) \/ Resume(lang)
         \/ NextPresentation
  PROVE  ActiveInv' /\ Reasoned(pool)'
<1>1. /\ learn \in [Items -> State] /\ shown \in Seq(Presentation)
      /\ pool \in Seq(Candidate) /\ ContentTypeOK /\ LearnerTypeOK
      /\ AnchorInv /\ PoolIsShowable /\ RecordInv /\ ActiveInv /\ Reasoned(pool)
  BY Typed DEF LearnerInv, RecordInv, TypeOK
<1>2. ASSUME NEW found, AnchorsOK(found.anchor), learn' = Anchored(found),
             UNCHANGED review
      PROVE  ActiveInv'
  BY <1>1, <1>2, AnchoredOnly DEF ActiveInv
<1>3. ASSUME NEW lang \in Langs, Start(lang) \/ Resume(lang)
      PROVE  ActiveInv' /\ Reasoned(pool)'
  <2> DEFINE found == Materialized(lang)
  <2>1. Filling(found) BY <1>1, MaterializedMeets
  <2>2. learn' = Anchored(found) /\ UNCHANGED review /\ pool' = found.pool
    BY <1>3 DEF Start, Resume
  <2> HIDE DEF found
  <2>3. AnchorsOK(found.anchor) /\ Reasoned(found.pool)
    BY <2>1 DEF Filling, AccOK
  <2> QED BY <1>2, <2>2, <2>3 DEF Reasoned
<1>4. ASSUME NextPresentation
      PROVE  ActiveInv' /\ Reasoned(pool)'
  <2> DEFINE choice == SelectNext
  <2>1. ChoiceOK(choice) /\ Reasoned(choice.pool)
    BY <1>1, SelectNextIsOK, ChoiceIsReasoned
  <2>2. /\ learn' = Anchored(choice) /\ UNCHANGED review
        /\ \/ choice.pick # 0 /\ pool' = RemoveAt(choice.pool, choice.pick)
           \/ pool' = choice.pool
    BY <1>4 DEF NextPresentation
  <2> HIDE DEF choice
  <2>3. ActiveInv'
    BY <1>2, <2>1, <2>2 DEF ChoiceOK
  <2>4. choice.pick # 0 => Reasoned(RemoveAt(choice.pool, choice.pick))
    BY <2>1, RemovedIsReasoned DEF ChoiceOK, Selectable
  <2> QED BY <2>1, <2>2, <2>3, <2>4 DEF Reasoned
<1> QED BY <1>3, <1>4

\* Every step leaves it so.
LEMMA LearnerStep == LearnerInv /\ [Next]_vars => LearnerInv'
<1> SUFFICES ASSUME LearnerInv, [Next]_vars PROVE LearnerInv'
  OBVIOUS
<1>1. /\ RecordInv /\ ActiveInv /\ Reasoned(pool) /\ RecordInv'
      /\ now \in Ticks /\ learn \in [Items -> State] /\ review \in [Items -> Row]
      /\ shown \in Seq(Presentation) /\ pool \in Seq(Candidate)
  BY RecordStep, Typed DEF LearnerInv, RecordInv
<1>2. ASSUME \A i \in Items : /\ learn'[i].active = learn[i].active
                              /\ review'[i].row = review[i].row
      PROVE  ActiveInv'
  BY <1>1, <1>2 DEF ActiveInv
<1>3. ASSUME pool' = pool PROVE Reasoned(pool)'
  BY <1>1, <1>3 DEF Reasoned
<1>4. ASSUME NEW p \in DOMAIN shown, NEW i \in Items, NEW signal \in Used[i],
             Answer(p, i, signal)
      PROVE  ActiveInv' /\ Reasoned(pool)'
  BY <1>1, <1>3, <1>4, AnswerActive, AnswerIs
<1>5. ASSUME NEW p \in DOMAIN shown, SkipProbe(p)
      PROVE  ActiveInv' /\ Reasoned(pool)'
  BY <1>1, <1>2, <1>3, <1>5, SkipIs
<1>6. ASSUME NEW p \in DOMAIN shown, Finalizes(p)
      PROVE  ActiveInv' /\ Reasoned(pool)'
  BY <1>1, <1>2, <1>3, <1>6, FinalizedRows DEF Finalizes
<1>7. ASSUME NEW p \in DOMAIN shown, Flag(p)
      PROVE  ActiveInv' /\ Reasoned(pool)'
  <2>1. ActiveInv'
    BY <1>1, <1>2, <1>7, FlagIs
  <2> DEFINE keep == {c \in ToSet(pool) : c.sentence # shown[p].sentence}
  <2>2. pool' = Filtered(pool, keep)
    BY <1>7 DEF Flag
  <2> HIDE DEF keep
  <2>3. Reasoned(Filtered(pool, keep))
    BY <1>1, FilteredIsReasoned
  <2> QED BY <2>1, <2>2, <2>3 DEF Reasoned
<1>8. ASSUME learn' = learn, review' = review, pool' = pool
      PROVE  ActiveInv' /\ Reasoned(pool)'
  BY <1>2, <1>3, <1>8
<1>9. ASSUME Tick \/ Worker \/ UNCHANGED vars
      PROVE  ActiveInv' /\ Reasoned(pool)'
  <2>1. learn' = learn /\ review' = review /\ pool' = pool
    BY <1>1, <1>9, WorkIs DEF Tick, vars, learnerVars
  <2> QED BY <1>8, <2>1
<1>10. CASE Next
  <2>1. ActiveInv' /\ Reasoned(pool)'
    BY <1>4, <1>5, <1>6, <1>7, <1>8, <1>9, <1>10, Steps, LearnerMaterialized
  <2> QED BY <1>1, <2>1 DEF LearnerInv
<1> QED BY <1>1, <1>9, <1>10 DEF LearnerInv

\* It is so at the beginning.
LEMMA LearnerInit == Init => LearnerInv
<1> SUFFICES ASSUME Init PROVE LearnerInv
  OBVIOUS
<1>1. RecordInv BY RecordInit
<1>2. \A i \in Items : ~review[i].row
  BY DEF Init, NoRow
<1>3. pool = <<>> BY DEF Init
<1>4. DOMAIN pool = {} BY <1>3
<1> QED BY <1>1, <1>2, <1>4 DEF LearnerInv, ActiveInv, Reasoned

-----------------------------------------------------------------------------
(* What is asked for when there is nothing to show *)

\* A due item is met by a materialization that selects nothing from what it
\* made: what stands for the item is of the other language, or is a candidate
\* that it could not join.
LEMMA MetIsNotSelected ==
  ASSUME LearnerTypeOK, NEW made, Filling(made),
         Select(made.pool, "review") = 0, Select(made.pool, "new") = 0,
         NEW i \in Items, Met(i, made), Due(i), review[i].row,
         LangOf[i] = session.lang
  PROVE  \/ Ready(i, {}) = {}
         \/ \E g \in made.context : g.item = i
         \/ Stranded(i)
         \/ Foreign(i)
         \/ \E k \in DOMAIN made.pool :
              /\ made.pool[k].role = "review"
              /\ made.pool[k].stage = learn[i].stage
              /\ i \in sentences[made.pool[k].sentence].items
                         \ made.pool[k].targets
<1>1. made.pool \in Seq(Candidate) /\ Reasoned(made.pool)
  BY DEF Filling, AccOK, Acc
<1>2. SUFFICES ASSUME NEW k \in DOMAIN made.pool, Stands(i, made.pool[k])
               PROVE  \/ Foreign(i)
                      \/ /\ made.pool[k].role = "review"
                         /\ made.pool[k].stage = learn[i].stage
                         /\ i \in sentences[made.pool[k].sentence].items
                                    \ made.pool[k].targets
  BY DEF Met
<1> DEFINE c == made.pool[k]
<1>3. c.sentence \in Ready(i, {}) /\ i \in sentences[c.sentence].items
  BY <1>2 DEF Stands, Ready, Examined
<1>4. CASE sentences[c.sentence].lang # session.lang
  BY <1>3, <1>4 DEF Foreign
<1>5. CASE c.role = "new" /\ sentences[c.sentence].lang = session.lang
  <2>1. SelectNew(made.pool) = 0
    BY DEF Select
  <2>2. ReadyOf(made.pool, "new") = {}
    BY <1>1, <2>1, NoNewSelected
  <2> QED BY <1>5, <2>2 DEF ReadyOf
<1>6. CASE /\ c.role = "review" /\ c.stage = learn[i].stage
           /\ sentences[c.sentence].lang = session.lang
  <2>1. SelectReview(made.pool) = 0
    BY DEF Select
  <2>2. Usable(c) = {}
    <3>1. k \in ReadyOf(made.pool, "review") BY <1>6 DEF ReadyOf
    <3> QED BY <1>1, <2>1, <3>1, NoReviewSelected
  <2>3. i \notin c.targets
    BY <2>2 DEF Usable, Due
  <2> QED BY <1>3, <1>6, <2>3
<1> QED BY <1>2, <1>4, <1>5, <1>6 DEF Stands

\* What StarvingAsksForContent names: a job for the item, or why there is none.
Asks(i) ==
  \/ Ready(i, {}) = {}
        /\ \A r \in Roles : <<"batch", r, session.lang>> \in asked'
  \/ <<"context", i, learn[i].stage>> \in asked'
  \/ Stranded(i) \/ Foreign(i) \/ Crowded(i)'

\* What is asked for an item, if it is due.
DueAsks(i) ==
  /\ LangOf[i] = session.lang
  /\ review[i].row /\ Due(i)
  => Asks(i)

\* A materialization of everything that leaves nothing to show asks for content
\* for every due item, but for those of StarvingAsksForContent.
LEMMA StarvingStep ==
  ASSUME LearnerInv, NextPresentation, shown' = shown, ~Filled
  PROVE  \A i \in Items : DueAsks(i)
<1>1. /\ learn \in [Items -> State] /\ shown \in Seq(Presentation)
      /\ pool \in Seq(Candidate) /\ ContentTypeOK /\ LearnerTypeOK
      /\ AnchorInv /\ PoolIsShowable /\ RecordInv /\ ActiveInv /\ Reasoned(pool)
  BY Typed DEF LearnerInv, RecordInv, TypeOK
<1> DEFINE choice == SelectNext
           lang == session.lang
           made == Materialized(lang)
           gaps == GapJobs(choice, lang)
           batches == BatchJobs(lang)
           jobs == gaps \o batches
<1>2. ChoiceOK(choice)
  BY <1>1, SelectNextIsOK
<1>3. Filling(made) /\ AccOK(made) /\ made.pool \in Seq(Candidate)
  BY <1>1, MaterializedMeets DEF Filling, AccOK, Acc
<1>4. /\ session.open /\ learn' = Anchored(choice) /\ sentences' = sentences
      /\ \/ shown' = Append(shown, Shown(choice.pool[choice.pick]))
         \/ choice.pick = 0 /\ pool' = choice.pool /\ Ask(jobs)
  BY DEF NextPresentation
<1>5. choice.pick = 0 /\ pool' = choice.pool /\ Ask(jobs)
  <2>1. Len(Append(shown, Shown(choice.pool[choice.pick]))) = Len(shown) + 1
    BY <1>1
  <2>2. Len(shown) \in Nat
    BY <1>1
  <2> HIDE DEF choice
  <2> QED BY <1>4, <2>1, <2>2
<1>6. lang \in Langs
  BY <1>4 DEF LearnerInv, RecordInv, SessionInv
<1>7. /\ choice.pool = made.pool /\ choice.context = made.context
      /\ choice.explain = made.explain
      /\ \A role \in Roles : Select(made.pool, role) = 0
  BY <1>1, <1>3, <1>5, NothingIsFound
<1>8. \A i \in Items : learn'[i].stage = learn[i].stage
  BY <1>1, <1>2, <1>4, AnchoredOnly DEF ChoiceOK
<1> HIDE DEF choice, made
<1>9. gaps \in Seq(Job) /\ batches \in Seq(Job)
  <2>1. /\ gaps \in Seq({j \in Job : JobOK(j)})
        /\ batches \in Seq({j \in Job : JobOK(j)})
    BY <1>2, <1>6, GapJobsAreOK, BatchJobsAreOK DEF ChoiceOK
  <2> DEFINE Good == {j \in Job : JobOK(j)}
  <2>2. Good \subseteq Job OBVIOUS
  <2> HIDE DEF gaps, batches
  <2>3. gaps \in Seq(Good) /\ batches \in Seq(Good) BY <2>1
  <2> HIDE DEF Good
  <2> QED BY <2>2, <2>3
<1>10. \A job : (\/ \E n \in DOMAIN gaps : JobKey(gaps[n]) = job
                 \/ \E n \in DOMAIN batches : JobKey(batches[n]) = job)
                => job \in asked'
  <2> HIDE DEF gaps, batches
  <2>1. jobs \in Seq(Job)
    BY <1>9
  <2>2. \A n \in DOMAIN jobs : JobKey(jobs[n]) \in asked'
    BY <1>5, <2>1, AskCovers
  <2>3. /\ \A n \in DOMAIN gaps : n \in DOMAIN jobs /\ jobs[n] = gaps[n]
        /\ \A n \in DOMAIN batches : /\ Len(gaps) + n \in DOMAIN jobs
                                     /\ jobs[Len(gaps) + n] = batches[n]
    BY <1>9
  <2> HIDE DEF jobs
  <2> QED BY <2>2, <2>3
<1>11. \A r \in Roles : <<"batch", r, lang>> \in asked'
  <2>1. batches = [n \in 1..3 |-> [kind |-> "batch", lang |-> lang,
                     role |-> <<"review", "new", "exploration">>[n]]]
    BY DEF BatchJobs
  <2>2. ASSUME NEW r \in Roles
        PROVE  \E n \in DOMAIN batches : JobKey(batches[n]) = <<"batch", r, lang>>
    <3>1. \E n \in 1..3 : <<"review", "new", "exploration">>[n] = r
      <4>1. r = "review" \/ r = "new" \/ r = "exploration" BY DEF Roles
      <4>2. /\ <<"review", "new", "exploration">>[1] = "review"
            /\ <<"review", "new", "exploration">>[2] = "new"
            /\ <<"review", "new", "exploration">>[3] = "exploration"
        OBVIOUS
      <4>3. 1 \in 1..3 /\ 2 \in 1..3 /\ 3 \in 1..3 OBVIOUS
      <4> QED BY <4>1, <4>2, <4>3
    <3>2. PICK n \in 1..3 : <<"review", "new", "exploration">>[n] = r
      BY <3>1
    <3>3. batches[n] = [kind |-> "batch", lang |-> lang, role |-> r]
      BY <2>1, <3>2
    <3>4. n \in DOMAIN batches BY <2>1
    <3> HIDE DEF batches
    <3> QED BY <3>3, <3>4 DEF JobKey
  <2> HIDE DEF batches, lang
  <2> QED BY <1>10, <2>2
<1>12. Len(made.pool) < Len(pool) + BatchSize
  <2>1. ~(Len(made.pool) >= Len(pool) + BatchSize)
    BY <1>5, <1>7 DEF Filled
  <2>2. /\ \A q \in Seq(Candidate) : Len(q) \in Nat
        /\ BatchSize \in Nat
    <3>1. \A q \in Seq(Candidate) : Len(q) \in Nat OBVIOUS
    <3>2. BatchSize \in Nat BY PolicyAssumption
    <3> QED BY <3>1, <3>2
  <2>3. Len(made.pool) \in Nat /\ Len(pool) \in Nat
    BY <1>1, <1>3, <2>2
  <2> QED BY <2>1, <2>2, <2>3
<1>13. ASSUME NEW i \in Items, LangOf[i] = lang, review[i].row, Due(i)
       PROVE  Asks(i)
  <2>1. Met(i, made)
    <3>1. learn[i].active BY <1>1, <1>13 DEF ActiveInv
    <3> QED BY <1>1, <1>12, <1>13, <3>1, MaterializedMeets DEF made
  <2>2. \/ Ready(i, {}) = {}
        \/ \E g \in made.context : g.item = i
        \/ Stranded(i)
        \/ Foreign(i)
        \/ \E k \in DOMAIN made.pool :
             /\ made.pool[k].role = "review"
             /\ made.pool[k].stage = learn[i].stage
             /\ i \in sentences[made.pool[k].sentence].items
                        \ made.pool[k].targets
    <3>1. Select(made.pool, "review") = 0 /\ Select(made.pool, "new") = 0
      BY <1>7 DEF Roles
    <3> QED BY <1>1, <1>3, <1>13, <2>1, <3>1, MetIsNotSelected
  <2>3. CASE Ready(i, {}) = {}
    BY <1>11, <2>3 DEF Asks
  <2>4. CASE \E g \in made.context : g.item = i
    <3>1. \E g \in choice.context : g.item = i
      BY <1>7, <2>4
    <3>2. /\ choice.context \subseteq Gap /\ choice.explain \subseteq Sentences
          /\ Staged(choice.context)
      BY <1>2, <1>3, <1>7 DEF ChoiceOK, Filling
    <3>3. \E n \in DOMAIN gaps : JobKey(gaps[n]) = <<"context", i, learn[i].stage>>
      BY <3>1, <3>2, GapIsAsked
    <3> HIDE DEF gaps
    <3>4. <<"context", i, learn[i].stage>> \in asked'
      BY <1>10, <3>3
    <3> QED BY <3>4 DEF Asks
  <2>5. CASE Stranded(i) \/ Foreign(i)
    BY <2>5 DEF Asks
  <2>6. CASE \E k \in DOMAIN made.pool :
               /\ made.pool[k].role = "review"
               /\ made.pool[k].stage = learn[i].stage
               /\ i \in sentences[made.pool[k].sentence].items
                          \ made.pool[k].targets
    <3>1. Crowded(i)'
      BY <1>4, <1>5, <1>7, <1>8, <2>6 DEF Crowded
    <3> QED BY <3>1 DEF Asks
  <2> QED BY <2>2, <2>3, <2>4, <2>5, <2>6
<1> QED BY <1>13 DEF DueAsks

\* What has a schedule is being learnt, and reviews have reasons, in every state:
\* the inductive invariant of the theorem below.
THEOREM LearnerIsKept == Spec => []LearnerInv
  BY LearnerInit, LearnerStep, PTL DEF Spec

\* When there is nothing to show, content was asked for today for every item
\* that is due, but for those named (selection.py, replenishment.py).
THEOREM StarvingAsks == Spec => StarvingAsksForContent
<1>1. LearnerInv /\ [Next]_vars =>
        [NextPresentation /\ shown' = shown /\ ~Filled
           => \A i \in Items : DueAsks(i)]_vars
  BY StarvingStep
<1> QED BY <1>1, LearnerIsKept, PTL
        DEF Spec, StarvingAsksForContent, DueAsks, Asks
=============================================================================
