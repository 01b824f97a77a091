----------------------------- MODULE KanaRound -----------------------------
(***************************************************************************)
(* Kana practice: the table, a round of questions, its result.             *)
(*                                                                         *)
(*   frontend/src/kana/quiz.ts      a round and the choices of a question  *)
(*   frontend/src/kana/progress.ts  the counts kept of every character     *)
(*   frontend/src/kana/screen.ts    the screens                            *)
(***************************************************************************)
EXTENDS Naturals, Sequences, FiniteSets, SequencesExt, LocalStore

CONSTANTS
    Pool,         \* the characters of the chosen script and range
    Romaji,       \* their reading; two may share one
    RoundMax,     \* KANA_ROUND_MAX_QUESTIONS
    ChoiceCount,  \* KANA_CHOICE_COUNT
    MaxKana       \* bound: answers that are counted

ASSUME KanaAssumption ==
    /\ IsFiniteSet(Pool)
    /\ RoundMax \in Nat \ {0}
    /\ ChoiceCount \in Nat \ {0}
    /\ Cardinality({Romaji[k] : k \in Pool}) >= ChoiceCount
    /\ \A D \in SUBSET Pool : Absent \notin [D -> [correct : Nat, wrong : Nat]]

VARIABLES
    kana,      \* the screen, its mode, and the round
    kanaSlot,  \* the key nc.kana of the local store
    given,     \* history: the answers given since the counts were last zero,
               \* without those a reload has lost
    stored     \* history: those of them the storage has taken

kanaVars == <<kana, kanaSlot, given, stored>>

NoCount == [correct |-> 0, wrong |-> 0]

\* One more answer.
CountOne(entry, correct) ==
    IF correct THEN [entry EXCEPT !.correct = @ + 1]
    ELSE [entry EXCEPT !.wrong = @ + 1]

NothingGiven == [k \in Pool |-> NoCount]

\* isKanaProgress.
IsKanaProgress(v) ==
    \A k \in DOMAIN v : k \in Pool /\ v[k] \in [correct : Nat, wrong : Nat]

NoRound == [questions |-> <<>>, total |-> 0, position |-> 0, right |-> 0,
            retried |-> <<>>]

\* createKanaRound: the shuffled pool, cut off.
KanaRounds ==
    {[NoRound EXCEPT !.questions = [i \in DOMAIN s |->
                                       [item |-> s[i], retry |-> FALSE]],
                     !.total = Len(s)] :
        s \in {SubSeq(t, 1, Min({Cardinality(Pool), RoundMax})) :
                  t \in SetToSeqs(Pool)}}

\* createKanaChoices: the right reading and as many others as it takes.
KanaChoices(k) ==
    {c \in SUBSET {Romaji[x] : x \in Pool} :
        Romaji[k] \in c /\ Cardinality(c) = ChoiceCount}

Current(r) == r.questions[r.position + 1]

\* With the mistake: a wrong answer always asks once more.
AnswerRetryingOn(r, correct) ==
    LET q == Current(r) IN
    IF correct THEN [r EXCEPT !.position = @ + 1,
                              !.right = IF q.retry THEN @ ELSE @ + 1]
    ELSE [r EXCEPT !.position = @ + 1,
                   !.questions = Append(@, [item |-> q.item, retry |-> TRUE]),
                   !.retried = Append(@, q.item)]

\* answer: a first answer that is wrong puts the question at the end.
Answer(r, correct) ==
    LET q == Current(r)
        on == [r EXCEPT !.position = @ + 1]
    IN IF q.retry THEN on
       ELSE IF correct THEN [on EXCEPT !.right = @ + 1]
       ELSE [on EXCEPT !.questions = Append(@, [item |-> q.item, retry |-> TRUE]),
                       !.retried = Append(@, q.item)]

\* recordKanaAnswer.
Counted(v, k, correct) ==
    LET old == IF v = Absent THEN [x \in {} |-> NoCount] ELSE v
        entry == IF k \in DOMAIN old THEN old[k] ELSE NoCount
    IN [x \in DOMAIN old \cup {k} |->
            IF x # k THEN old[x] ELSE CountOne(entry, correct)]

\* The kept counts, and the one of a character.
KanaKept == SlotValue(kanaSlot, IsKanaProgress(kanaSlot.disk))
KeptOf(v, k) ==
    IF v = Absent THEN NoCount ELSE IF k \in DOMAIN v THEN v[k] ELSE NoCount

\* With the mistake: the page counts on from its copy without reading.
RecordUnread(k, correct) ==
    LET counts == Counted(kanaSlot.memory, k, correct)
    IN kanaSlot' = SlotWritten(kanaSlot, counts, IsKanaProgress(counts))

\* recordKanaAnswer: read, count one more, write.
Record(k, correct) ==
    LET seen == SlotRead(kanaSlot, IsKanaProgress(kanaSlot.disk))
        counts == Counted(seen.memory, k, correct)
    IN kanaSlot' = SlotWritten(seen, counts, IsKanaProgress(counts))

-----------------------------------------------------------------------------
KanaInit ==
    /\ kana = [at |-> "table", mode |-> "read", round |-> NoRound]
    /\ kanaSlot \in EmptySlots
    /\ given = NothingGiven /\ stored = NothingGiven

\* startRound, from the table and from the result.
KanaStarts ==
    /\ kana.at \in {"table", "result"}
    /\ \E r \in KanaRounds,
          m \in (IF kana.at = "table" THEN {"read", "choose"} ELSE {kana.mode}) :
           kana' = [at |-> "question", mode |-> m, round |-> r]
    /\ UNCHANGED <<kanaSlot, given, stored>>

\* The button back to the table; the round is given up.
KanaLeaves ==
    /\ kana.at # "table"
    /\ kana' = [kana EXCEPT !.at = "table", !.round = NoRound]
    /\ UNCHANGED <<kanaSlot, given, stored>>

ScreenAfter(r) == IF r.position = Len(r.questions) THEN "result" ELSE "question"

Counts ==
    LET v == KanaKept
    IN IF v = Absent THEN 0
       ELSE FoldSet(LAMBDA k, n : v[k].correct + v[k].wrong + n, 0, DOMAIN v)

\* An answer is counted and given to the round. A choice stays on the screen.
KanaAnswers(correct) ==
    /\ kana.at = "question" /\ Counts < MaxKana
    /\ LET r == Answer(kana.round, correct)
           k == Current(kana.round).item
       IN /\ kana' = [kana EXCEPT !.round = r,
                                  !.at = IF kana.mode = "choose" THEN "feedback"
                                         ELSE ScreenAfter(r)]
          /\ Record(k, correct)
          /\ given' = [given EXCEPT ![k] = CountOne(@, correct)]
          /\ stored' = IF kanaSlot.works THEN given' ELSE stored

\* renderRead: one judges oneself, and the next question is there.
KanaReads ==
    /\ kana.mode = "read"
    /\ \E correct \in BOOLEAN : KanaAnswers(correct)

\* renderChoose: one choice, and the others are disabled.
KanaChooses ==
    /\ kana.mode = "choose" /\ kana.at = "question"
    /\ LET k == Current(kana.round).item IN
       \E picked \in UNION KanaChoices(k) : KanaAnswers(picked = Romaji[k])

KanaGoesOn ==
    /\ kana.at = "feedback"
    /\ kana' = [kana EXCEPT !.at = ScreenAfter(kana.round)]
    /\ UNCHANGED <<kanaSlot, given, stored>>

\* resetKanaProgress, below the table.
KanaForgets ==
    /\ kana.at = "table"
    /\ kanaSlot' = SlotRemoved(kanaSlot)
    /\ given' = NothingGiven /\ stored' = NothingGiven
    /\ UNCHANGED kana

\* The page is loaded anew, at any moment: the table, and what was stored.
KanaReloads ==
    /\ kana' = [kana EXCEPT !.at = "table", !.round = NoRound]
    /\ kanaSlot' = SlotReloaded(kanaSlot)
    /\ given' = stored
    /\ UNCHANGED stored

\* The storage runs full, or there is room again.
StorageTurns ==
    /\ kanaSlot' = [kanaSlot EXCEPT !.works = ~@]
    /\ UNCHANGED <<kana, given, stored>>

KanaStep ==
    \/ KanaStarts \/ KanaLeaves \/ KanaReads \/ KanaChooses \/ KanaGoesOn
    \/ KanaForgets \/ KanaReloads \/ StorageTurns

-----------------------------------------------------------------------------
(* Properties *)

\* The result adds up at every moment: each first question is answered at once
\* or asked a second time at the end, none is asked a third time, and the round
\* is over exactly when nothing is left to ask (createKanaRound.answer).
KanaRoundAddsUp ==
    LET r == kana.round
        first == {i \in 1..r.position : ~r.questions[i].retry}
        again == {i \in DOMAIN r.questions : r.questions[i].retry}
    IN /\ r.right + Len(r.retried) = Cardinality(first)
       /\ IsInjective(r.retried)
       /\ {r.questions[i].item : i \in again} = Range(r.retried)
       /\ Len(r.questions) = r.total + Len(r.retried)
       /\ kana.at = "result" => r.right + Len(r.retried) = r.total
       /\ kana.at = "question" => r.position < Len(r.questions)

\* The kept counts are the answers that were given, those to second questions
\* and of rounds that were given up among them. A storage that is full costs
\* nothing as long as the page lives, and a reload costs what was answered since
\* the last write it took: never an older answer, and none is counted twice
\* (recordKanaAnswer, localSlot).
KanaCountsAreKept ==
    /\ \A k \in Pool : KeptOf(KanaKept, k) = given[k]
    /\ \A k \in Pool : KeptOf(SlotValue(SlotReloaded(kanaSlot),
                                       IsKanaProgress(kanaSlot.disk)), k)
                       = stored[k]

\* Practice adds up: the round on the screen, with its retries and its result,
\* and what is kept of all rounds, over rounds that are given up, reloads and a
\* storage that is full at times (createKanaRound, recordKanaAnswer).
KanaAddsUp == KanaRoundAddsUp /\ KanaCountsAreKept
=============================================================================
