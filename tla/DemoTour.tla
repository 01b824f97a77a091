----------------------------- MODULE DemoTour -----------------------------
(***************************************************************************)
(* The demo, which needs no server.                                        *)
(*                                                                         *)
(*   frontend/src/demo/progress.ts  the order of the sentences             *)
(*   frontend/src/demo/demo.ts      the screen and what it saves           *)
(*                                                                         *)
(* Sentences come in fixture order. One with a word that was not known is  *)
(* shown once more, a few sentences later; now and then a word of a        *)
(* sentence seen before is asked for (the probe). What was done is saved   *)
(* at every step, and the saved value is checked before it is used.        *)
(***************************************************************************)
EXTENDS Naturals, Sequences, FiniteSets, SequencesExt, LocalStore

CONSTANTS
    WordsOf,      \* the words of each sentence, in order of the fixture
    ReviewAfter,  \* DEMO_REVIEW_AFTER_SENTENCES
    ProbeEvery,   \* DEMO_PROBE_EVERY_SENTENCES
    Foreign       \* a stored value of another fixture

VARIABLES
    demo,      \* the screen: shown or left, its progress, the probe, the
               \* words judged since the sentence was drawn
    demoSlot   \* the key nc.demo of the local store

demoVars == <<demo, demoSlot>>

Sentences == DOMAIN WordsOf
Total == Len(WordsOf)
Words == UNION {WordsOf[i] : i \in Sentences}
NoWord == "no word"

\* DemoProgress.
Progress == [position : Nat, seen : Nat, reports : SUBSET Words,
             probed : SUBSET [item : Words, seen : Nat],
             queue : Seq([index : Nat, due : Nat]), reviewed : Seq(Nat)]

ASSUME DemoAssumption ==
    /\ WordsOf \in Seq(SUBSET Words)
    /\ ReviewAfter \in Nat /\ ProbeEvery \in Nat \ {0}
    /\ Absent \notin Progress /\ Foreign \notin Progress

\* Sentence numbers start at 1 here, at 0 in the code: `position' and `seen'
\* are equal for the newest sentence, and the end is Total + 1.
InitialProgress ==
    [position |-> 1, seen |-> IF Total = 0 THEN 0 ELSE 1,
     reports |-> {}, probed |-> {}, queue |-> <<>>,
     reviewed |-> <<>>]

IsComplete(p) == p.position = Total + 1

\* nextView: the sentence is one that is shown again.
IsReview(p) == p.position \in Range(p.reviewed)

\* With the mistake: nothing remembers that the sentence was shown again.
ShowReviewForgetting(p, q) ==
    [p EXCEPT !.position = p.queue[q].index, !.queue = RemoveAt(@, q)]

ShowReview(p, q) ==
    [p EXCEPT !.position = p.queue[q].index,
              !.queue = RemoveAt(@, q),
              !.reviewed = Append(@, p.queue[q].index)]

\* advance: the first review that is due, a new sentence, a review, the end.
Advance(p) ==
    LET due == {q \in DOMAIN p.queue : p.queue[q].due <= p.seen} IN
    CASE IsComplete(p) -> p
      [] ~IsComplete(p) /\ due # {} -> ShowReview(p, Min(due))
      [] ~IsComplete(p) /\ due = {} /\ p.seen < Total ->
             [p EXCEPT !.position = p.seen + 1, !.seen = @ + 1]
      [] ~IsComplete(p) /\ due = {} /\ p.seen = Total /\ p.queue # <<>> ->
             ShowReview(p, 1)
      [] OTHER -> [p EXCEPT !.position = Total + 1]

\* With the mistake: a sentence may be shown again more than once.
EnqueueAlways(p, i) ==
    [p EXCEPT !.queue = Append(@, [index |-> i, due |-> p.seen + ReviewAfter])]

\* enqueue: a sentence waits to be shown again at most once.
Enqueue(p, i) ==
    IF i \in Range(p.reviewed) \/ \E q \in DOMAIN p.queue : p.queue[q].index = i
    THEN p
    ELSE [p EXCEPT !.queue =
                       Append(@, [index |-> i, due |-> p.seen + ReviewAfter])]

\* What is said of a word matters only if it is doubtful (uncertain, unknown);
\* of earlier judgements the code only looks at whether there was one.
RecordSelfReport(p, w, doubtful) ==
    LET next == [p EXCEPT !.reports = @ \cup {w}]
    IN IF IsComplete(p) THEN p
       ELSE IF doubtful THEN Enqueue(next, p.position) ELSE next

\* recordProbeAnswer: a doubtful word brings back the last sentence seen
\* that has it.
RecordProbeAnswer(p, w, doubtful) ==
    LET next == [p EXCEPT !.probed = @ \cup {[item |-> w, seen |-> p.seen]}]
        having == {i \in 1..p.seen : w \in WordsOf[i]}
    IN IF \E b \in p.probed : b.item = w THEN p
       ELSE IF doubtful /\ having # {}
            THEN Enqueue(next, Max(having)) ELSE next

\* pickProbe: on every ProbeEvery-th new sentence, once, a word of the first
\* earlier sentence with one that was neither judged nor asked for.
ProbePicks(p) ==
    LET open == {i \in 1..(p.position - 1) :
                     \E w \in WordsOf[i] : /\ w \notin p.reports
                                           /\ \A b \in p.probed : b.item # w}
    IN IF /\ ~IsComplete(p) /\ ~IsReview(p)
          /\ p.position = p.seen /\ p.seen % ProbeEvery = 0
          /\ \A b \in p.probed : b.seen # p.seen
          /\ open # {}
       THEN {w \in WordsOf[Min(open)] : /\ w \notin p.reports
                                        /\ \A b \in p.probed : b.item # w}
       ELSE {NoWord}

\* isProgressOf: what is accepted from the store.
IsProgressOf(p) ==
    /\ p # Foreign
    /\ p.seen \in 0..Total
    /\ IF IsComplete(p) THEN p.seen = Total /\ p.queue = <<>>
                        ELSE p.position \in 1..p.seen
    /\ p.reports \subseteq Words
    /\ \A b \in p.probed : b.item \in Words /\ b.seen \in 1..p.seen
    /\ \A b, c \in p.probed : b.item = c.item => b = c
    /\ \A q \in DOMAIN p.queue : p.queue[q].index \in 1..p.seen
    /\ \A q, r \in DOMAIN p.queue : p.queue[q].index = p.queue[r].index => q = r
    /\ \A i \in DOMAIN p.reviewed : p.reviewed[i] \in 1..p.seen
    /\ IsInjective(p.reviewed)
    /\ \A q \in DOMAIN p.queue : p.queue[q].index \notin Range(p.reviewed)

-----------------------------------------------------------------------------
Away == [here |-> FALSE, p |-> InitialProgress, pick |-> NoWord, judged |-> {}]

DemoInit ==
    /\ demo = Away
    /\ \E s \in EmptySlots, d \in {Absent, Foreign} :
           demoSlot = [s EXCEPT !.disk = d]

\* renderView: the sentence is drawn, with a probe if it is time for one. The
\* words of a sentence have an order; any of them stands for the first.
Draws(p) ==
    \E w \in ProbePicks(p) :
        demo' = [here |-> TRUE, p |-> p, pick |-> w, judged |-> {}]

\* mountDemo goes on where the saved progress ends.
DemoOpens ==
    /\ ~demo.here
    /\ LET saved == SlotValue(demoSlot, IsProgressOf(demoSlot.disk)) IN
           Draws(IF saved = Absent THEN InitialProgress ELSE saved)
    /\ demoSlot' = SlotRead(demoSlot, IsProgressOf(demoSlot.disk))

DemoLeaves ==
    /\ demo.here
    /\ demo' = Away
    /\ demoSlot' \in {demoSlot, SlotReloaded(demoSlot)}

DemoNext ==
    /\ demo.here /\ ~IsComplete(demo.p)
    /\ Draws(Advance(demo.p))
    /\ demoSlot' = SlotWritten(demoSlot, Advance(demo.p),
                              IsProgressOf(Advance(demo.p)))

\* demoOps.selfReport. The panel takes one judgement of a word.
DemoReports ==
    /\ demo.here /\ ~IsComplete(demo.p)
    /\ \E w \in WordsOf[demo.p.position] \ demo.judged, doubtful \in BOOLEAN :
           LET next == RecordSelfReport(demo.p, w, doubtful) IN
           /\ demo' = [demo EXCEPT !.p = next, !.judged = @ \cup {w}]
           /\ demoSlot' = SlotWritten(demoSlot, next, IsProgressOf(next))

\* demoOps.respondToProbe; the question goes away.
DemoAnswersProbe ==
    /\ demo.here /\ demo.pick # NoWord
    /\ \E doubtful \in BOOLEAN :
           LET next == RecordProbeAnswer(demo.p, demo.pick, doubtful) IN
           /\ demo' = [demo EXCEPT !.p = next, !.pick = NoWord]
           /\ demoSlot' = SlotWritten(demoSlot, next, IsProgressOf(next))

\* startOver, of the banner and of the completion screen.
DemoStartsOver ==
    /\ demo.here
    /\ Draws(InitialProgress)
    /\ demoSlot' = SlotRemoved(demoSlot)

DemoStep ==
    \/ DemoOpens \/ DemoLeaves \/ DemoNext
    \/ DemoReports \/ DemoAnswersProbe \/ DemoStartsOver

-----------------------------------------------------------------------------
(* Properties *)

\* Coming back to the demo shows what was there: whatever one did, isProgressOf
\* accepts it, so that the copy of the local store is the progress on screen.
DemoIsKept ==
    demo.here =>
        LET saved == SlotValue(demoSlot, IsProgressOf(demoSlot.disk)) IN
        demo.p = IF saved = Absent THEN InitialProgress ELSE saved

\* What is left to show at most: new sentences, second showings, the end.
DemoRest(p) ==
    (Total - p.seen) + (Total - Len(p.reviewed)) + (IF IsComplete(p) THEN 0 ELSE 1)

\* "Next" leads to the end: each one shortens what is left, and no judgement
\* or probe answer in between makes it longer (advance, enqueue).
DemoMovesOn ==
    [][/\ DemoNext => DemoRest(demo'.p) < DemoRest(demo.p)
       /\ DemoReports \/ DemoAnswersProbe =>
              DemoRest(demo'.p) = DemoRest(demo.p)]_demoVars
=============================================================================
