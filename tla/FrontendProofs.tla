--------------------------- MODULE FrontendProofs ---------------------------
(***************************************************************************)
(* Proofs about the parts of the page that need no login: the demo and     *)
(* kana practice.                                                          *)
(*                                                                         *)
(*   PracticeAddsUp  kana rounds and kept counts add up, for every pool    *)
(*   DemoComesBack   what was done in the demo is there on coming back     *)
(*   DemoEnds        "next" leads to the end of every fixture              *)
(*                                                                         *)
(* A round is flattened into its questions, their number and the counts    *)
(* (AddsUp), a demo progress into its parts (Placed, Asked, Queued); each  *)
(* operation is shown to keep these, and the invariants of the two parts   *)
(* only add where on the screen and in the store the value is kept.        *)
(***************************************************************************)
EXTENDS DemoTour, KanaRound, ListLemmas, FiniteSetTheorems, TLAPS

-----------------------------------------------------------------------------
(* Kana practice *)

Question == [item : Pool, retry : BOOLEAN]
Round == [questions : Seq(Question), total : Nat, position : Nat, right : Nat,
          retried : Seq(Pool)]

\* A round of T first questions, of which P were passed: the questions qs are
\* the first ones, then what was answered wrongly among those that were asked
\* (rs), in that order; R of the others were answered rightly.
AddsUp(qs, T, P, R, rs) ==
    /\ Len(qs) = T + Len(rs)
    /\ P <= Len(qs)
    /\ \A i \in 1..T : ~qs[i].retry
    /\ \A i, j \in 1..T : qs[i].item = qs[j].item => i = j
    /\ \A j \in 1..Len(rs) :
           /\ qs[T + j].retry
           /\ qs[T + j].item = rs[j]
           /\ \E i \in 1..T : i <= P /\ qs[i].item = rs[j]
    /\ \A i, j \in 1..Len(rs) : rs[i] = rs[j] => i = j
    /\ R + Len(rs) = IF P <= T THEN P ELSE T

RoundInv(r) == AddsUp(r.questions, r.total, r.position, r.right, r.retried)

KanaInv ==
    /\ kana \in [at : {"table", "question", "feedback", "result"},
                 mode : {"read", "choose"}, round : Round]
    /\ RoundInv(kana.round)
    /\ kana.at = "question"
           => kana.round.position < Len(kana.round.questions)
    /\ kana.at = "result"
           => kana.round.position = Len(kana.round.questions)

\* Before anything is asked there is nothing to add up.
LEMMA NoRoundIsRound == NoRound \in Round /\ RoundInv(NoRound)
BY DEF NoRound, Round, RoundInv, AddsUp

LEMMA PoolHasKana == Cardinality(Pool) \in Nat /\ Cardinality(Pool) > 0
<1>1. Cardinality(Pool) \in Nat
    BY KanaAssumption, FS_CardinalityType
<1>2. ASSUME Pool = {} PROVE FALSE
    <2>1. {Romaji[k] : k \in Pool} = {}
        BY <1>2
    <2> QED BY <2>1, KanaAssumption, FS_EmptySet
<1> QED BY <1>1, <1>2, KanaAssumption, FS_EmptySet

\* The shuffled pool, cut off, makes a round of at least one question.
LEMMA RoundsStart ==
    ASSUME NEW r \in KanaRounds
    PROVE  /\ r \in Round /\ RoundInv(r)
           /\ r.position < Len(r.questions)
<1> DEFINE n == Min({Cardinality(Pool), RoundMax})
<1>1. n \in Nat /\ 0 < n /\ n <= Cardinality(Pool)
    BY PoolHasKana, KanaAssumption DEF Min
<1> HIDE DEF n
<1>2. PICK t \in SetToSeqs(Pool) :
          r = [NoRound EXCEPT
                  !.questions = [i \in DOMAIN SubSeq(t, 1, n) |->
                      [item |-> SubSeq(t, 1, n)[i], retry |-> FALSE]],
                  !.total = Len(SubSeq(t, 1, n))]
    BY DEF KanaRounds, n
<1>3. /\ t \in [1..Cardinality(Pool) -> Pool]
      /\ \A i, j \in 1..Cardinality(Pool) : i # j => t[i] # t[j]
    BY <1>2 DEF SetToSeqs
<1>4. t \in Seq(Pool) /\ Len(t) = Cardinality(Pool)
    BY <1>3, PoolHasKana
<1> DEFINE s == SubSeq(t, 1, n)
<1>5. /\ s \in Seq(Pool) /\ Len(s) = n /\ DOMAIN s = 1..n
      /\ \A i \in 1..n : s[i] = t[i]
    BY <1>1, <1>4
<1> DEFINE q == [i \in DOMAIN s |-> [item |-> s[i], retry |-> FALSE]]
<1>6. r = [questions |-> q, total |-> n, position |-> 0, right |-> 0,
           retried |-> <<>>]
    BY <1>2, <1>5 DEF NoRound
<1> HIDE DEF s
<1>7. /\ q \in Seq(Question) /\ Len(q) = n
      /\ \A i \in 1..n : q[i].item = s[i] /\ ~q[i].retry
    BY <1>1, <1>5 DEF Question
<1> HIDE DEF q
<1>8. r \in Round
    BY <1>1, <1>6, <1>7 DEF Round
<1>9. \A i, j \in 1..n : q[i].item = q[j].item => i = j
    BY <1>1, <1>3, <1>5, <1>7, PoolHasKana
<1>10. RoundInv(r)
    BY <1>1, <1>6, <1>7, <1>9 DEF RoundInv, AddsUp
<1> QED BY <1>1, <1>6, <1>7, <1>8, <1>10

\* The questions after the first ones are the retries.
LEMMA RetriesComeLast ==
    ASSUME NEW qs \in Seq(Question), NEW T \in Nat, NEW P \in Nat,
           NEW R \in Nat, NEW rs \in Seq(Pool), AddsUp(qs, T, P, R, rs),
           P < Len(qs)
    PROVE  /\ qs[P + 1].retry <=> T < P + 1
           /\ qs[P + 1] \in Question
<1>1. Len(qs) \in Nat /\ Len(rs) \in Nat /\ Len(qs) = T + Len(rs)
    BY DEF AddsUp
<1>2. qs[P + 1] \in Question
    <2>1. P + 1 \in 1..Len(qs)
        BY <1>1
    <2> QED BY <2>1
<1>3. CASE P + 1 <= T
    BY <1>3 DEF AddsUp
<1>4. CASE T < P + 1
    <2> DEFINE j == P + 1 - T
    <2>1. j \in 1..Len(rs) /\ T + j = P + 1
        BY <1>1, <1>4
    <2> HIDE DEF j
    <2>2. qs[T + j].retry
        BY <2>1 DEF AddsUp
    <2> QED BY <1>2, <1>4, <2>1, <2>2
<1> QED BY <1>2, <1>3, <1>4

\* A question passed without a mistake: only first ones are counted.
LEMMA PassingAddsUp ==
    ASSUME NEW qs \in Seq(Question), NEW T \in Nat, NEW P \in Nat,
           NEW R \in Nat, NEW rs \in Seq(Pool), AddsUp(qs, T, P, R, rs),
           P < Len(qs)
    PROVE  /\ T < P + 1 => AddsUp(qs, T, P + 1, R, rs)
           /\ P + 1 <= T => AddsUp(qs, T, P + 1, R + 1, rs)
<1>1. Len(qs) \in Nat /\ Len(rs) \in Nat
    OBVIOUS
<1>2. ASSUME NEW j \in 1..Len(rs)
      PROVE  \E i \in 1..T : i <= P + 1 /\ qs[i].item = rs[j]
    <2>1. PICK i \in 1..T : i <= P /\ qs[i].item = rs[j]
        BY DEF AddsUp
    <2> QED BY <2>1
<1>3. /\ Len(qs) = T + Len(rs) /\ P + 1 <= Len(qs)
      /\ \A i \in 1..T : ~qs[i].retry
      /\ \A i, j \in 1..T : qs[i].item = qs[j].item => i = j
      /\ \A i, j \in 1..Len(rs) : rs[i] = rs[j] => i = j
    BY <1>1 DEF AddsUp
<1>4. \A j \in 1..Len(rs) :
          /\ qs[T + j].retry
          /\ qs[T + j].item = rs[j]
          /\ \E i \in 1..T : i <= P + 1 /\ qs[i].item = rs[j]
    <2>1. \A j \in 1..Len(rs) : qs[T + j].retry /\ qs[T + j].item = rs[j]
        BY DEF AddsUp
    <2> QED BY <1>2, <2>1
<1>5. /\ T < P + 1 => R + Len(rs) = IF P + 1 <= T THEN P + 1 ELSE T
      /\ P + 1 <= T => (R + 1) + Len(rs) = IF P + 1 <= T THEN P + 1 ELSE T
    <2>1. R + Len(rs) = IF P <= T THEN P ELSE T
        BY DEF AddsUp
    <2> QED BY <1>1, <2>1
<1> QED BY <1>3, <1>4, <1>5 DEF AddsUp

\* A first question answered wrongly is asked again at the end.
LEMMA MistakeAddsUp ==
    ASSUME NEW qs \in Seq(Question), NEW T \in Nat, NEW P \in Nat,
           NEW R \in Nat, NEW rs \in Seq(Pool), AddsUp(qs, T, P, R, rs),
           P + 1 <= T, NEW w \in Question, w.retry,
           w.item = qs[P + 1].item
    PROVE  AddsUp(Append(qs, w), T, P + 1, R, Append(rs, w.item))
<1> DEFINE q2 == Append(qs, w)
           r2 == Append(rs, w.item)
           n == Len(rs)
<1>1. n \in Nat /\ Len(qs) = T + n
    BY DEF AddsUp
<1>2. Len(q2) = T + (n + 1) /\ q2[T + (n + 1)] = w
    <2>1. Len(qs) + 1 = T + (n + 1)
        BY <1>1
    <2>2. Len(q2) = Len(qs) + 1 /\ q2[Len(qs) + 1] = w
        OBVIOUS
    <2> HIDE DEF q2
    <2> QED BY <2>1, <2>2
<1>3. \A i \in 1..(T + n) : q2[i] = qs[i]
    BY <1>1
<1>4. w.item \in Pool
    BY DEF Question
<1>5. /\ Len(r2) = n + 1 /\ r2[n + 1] = w.item
      /\ \A i \in 1..n : r2[i] = rs[i]
    BY <1>1, <1>4
<1> HIDE DEF q2, r2, n
<1>6. \A i, j \in 1..T : /\ ~q2[i].retry
                         /\ q2[i].item = q2[j].item => i = j
    <2>1. \A i \in 1..T : q2[i] = qs[i]
        BY <1>1, <1>3
    <2> QED BY <2>1 DEF AddsUp
<1>7. P + 1 \in 1..T /\ q2[P + 1] = qs[P + 1]
    BY <1>1, <1>3
<1>8. ASSUME NEW j \in 1..n
      PROVE  /\ q2[T + j].retry /\ q2[T + j].item = r2[j]
             /\ \E i \in 1..T : i <= P + 1 /\ q2[i].item = r2[j]
             /\ r2[j] # w.item
    <2>1. j \in 1..Len(rs)
        BY DEF n
    <2>2. PICK i \in 1..T : i <= P /\ qs[i].item = rs[j]
        BY <2>1 DEF AddsUp
    <2>3. q2[i] = qs[i] /\ q2[T + j] = qs[T + j] /\ r2[j] = rs[j]
        BY <1>1, <1>3, <1>5
    <2>4. rs[j] # w.item
        BY <1>7, <2>2 DEF AddsUp
    <2>5. i <= P + 1
        BY <2>2
    <2>6. qs[T + j].retry /\ qs[T + j].item = rs[j]
        BY <2>1 DEF AddsUp
    <2> QED BY <2>2, <2>3, <2>4, <2>5, <2>6
<1>9. ASSUME NEW j \in 1..(n + 1)
      PROVE  /\ q2[T + j].retry /\ q2[T + j].item = r2[j]
             /\ \E i \in 1..T : i <= P + 1 /\ q2[i].item = r2[j]
    <2>1. CASE j = n + 1
        <3>1. P + 1 <= P + 1
            OBVIOUS
        <3>2. \E i \in 1..T : i <= P + 1 /\ q2[i].item = r2[n + 1]
            BY <1>5, <1>7, <3>1
        <3> QED BY <1>2, <1>5, <2>1, <3>2
    <2>2. CASE j # n + 1
        <3>1. j \in 1..n
            BY <1>1, <2>2
        <3> QED BY <1>8, <3>1
    <2> QED BY <2>1, <2>2
<1>10. \A i, j \in 1..(n + 1) : r2[i] = r2[j] => i = j
    <2>1. \A i \in 1..(n + 1) :
              \/ /\ i = n + 1
                 /\ r2[i] = w.item
              \/ /\ i \in 1..Len(rs)
                 /\ r2[i] = rs[i]
                 /\ r2[i] # w.item
        BY <1>1, <1>5, <1>8 DEF n
    <2> QED BY <2>1 DEF AddsUp
<1>11. R + (n + 1) = P + 1
    BY <1>1 DEF AddsUp, n
<1>12. Len(q2) = T + Len(r2) /\ P + 1 <= Len(q2)
    BY <1>1, <1>2, <1>5
<1>13. R + Len(r2) = IF P + 1 <= T THEN P + 1 ELSE T
    BY <1>5, <1>11
<1>14. AddsUp(q2, T, P + 1, R, r2)
    BY <1>5, <1>6, <1>9, <1>10, <1>12, <1>13 DEF AddsUp
<1> QED BY <1>14 DEF q2, r2

\* An answer keeps the account: a retry only moves on, a right first answer
\* counts at once, a wrong one is asked again at the end.
LEMMA AnswerKeeps ==
    ASSUME NEW r \in Round, RoundInv(r), r.position < Len(r.questions),
           NEW c \in BOOLEAN
    PROVE  Answer(r, c) \in Round /\ RoundInv(Answer(r, c))
<1> PICK qs \in Seq(Question), T \in Nat, P \in Nat, R \in Nat,
        rs \in Seq(Pool) :
        r = [questions |-> qs, total |-> T, position |-> P, right |-> R,
             retried |-> rs]
    BY DEF Round
<1> DEFINE q == qs[P + 1]
           w == [item |-> q.item, retry |-> TRUE]
<1>1. AddsUp(qs, T, P, R, rs) /\ P < Len(qs)
    BY DEF RoundInv
<1>2. (q.retry <=> T < P + 1) /\ q \in Question
    BY <1>1, RetriesComeLast
<1>3. q.item \in Pool /\ w \in Question /\ w.retry /\ w.item = q.item
    BY <1>2 DEF Question
<1>4. Current(r) = q
    BY DEF Current
<1> HIDE DEF w, q
<1>5. CASE q.retry
    <2>1. Answer(r, c) = [questions |-> qs, total |-> T, position |-> P + 1,
                          right |-> R, retried |-> rs]
        BY <1>4, <1>5 DEF Answer
    <2>2. AddsUp(qs, T, P + 1, R, rs)
        BY <1>1, <1>2, <1>5, PassingAddsUp
    <2> QED BY <2>1, <2>2 DEF Round, RoundInv
<1>6. CASE ~q.retry /\ c
    <2>1. Answer(r, c) = [questions |-> qs, total |-> T, position |-> P + 1,
                          right |-> R + 1, retried |-> rs]
        BY <1>4, <1>6 DEF Answer
    <2>2. AddsUp(qs, T, P + 1, R + 1, rs)
        BY <1>1, <1>2, <1>6, PassingAddsUp
    <2> QED BY <2>1, <2>2 DEF Round, RoundInv
<1>7. CASE ~q.retry /\ ~c
    <2>1. Answer(r, c) =
              [questions |-> Append(qs, w), total |-> T, position |-> P + 1,
               right |-> R, retried |-> Append(rs, q.item)]
        BY <1>4, <1>7 DEF Answer, w
    <2>2. AddsUp(Append(qs, w), T, P + 1, R, Append(rs, q.item))
        <3>1. P + 1 <= T
            BY <1>2, <1>7
        <3> QED BY <1>1, <1>3, <3>1, MistakeAddsUp DEF q
    <2>3. Append(qs, w) \in Seq(Question) /\ Append(rs, q.item) \in Seq(Pool)
        BY <1>3
    <2> DEFINE qa == Append(qs, w)
               ra == Append(rs, q.item)
    <2> HIDE DEF qa, ra
    <2>4. AddsUp(qa, T, P + 1, R, ra) /\ qa \in Seq(Question) /\ ra \in Seq(Pool)
        BY <2>2, <2>3 DEF qa, ra
    <2>5. Answer(r, c) = [questions |-> qa, total |-> T, position |-> P + 1,
                          right |-> R, retried |-> ra]
        BY <2>1 DEF qa, ra
    <2> HIDE DEF Answer
    <2> QED BY <2>4, <2>5 DEF Round, RoundInv
<1> QED BY <1>5, <1>6, <1>7

\* What adds up, seen from outside: this is what the result shows.
LEMMA RoundShows ==
    ASSUME NEW r \in Round, RoundInv(r)
    PROVE  LET first == {i \in 1..r.position : ~r.questions[i].retry}
               again == {i \in DOMAIN r.questions : r.questions[i].retry}
           IN /\ r.right + Len(r.retried) = Cardinality(first)
              /\ IsInjective(r.retried)
              /\ {r.questions[i].item : i \in again} = Range(r.retried)
              /\ Len(r.questions) = r.total + Len(r.retried)
              /\ r.position = Len(r.questions)
                     => r.right + Len(r.retried) = r.total
<1> PICK qs \in Seq(Question), T \in Nat, P \in Nat, R \in Nat,
        rs \in Seq(Pool) :
        r = [questions |-> qs, total |-> T, position |-> P, right |-> R,
             retried |-> rs]
    BY DEF Round
<1> DEFINE first == {i \in 1..P : ~qs[i].retry}
           again == {i \in DOMAIN qs : qs[i].retry}
           n == Len(rs)
<1>1. AddsUp(qs, T, P, R, rs)
    BY DEF RoundInv
<1>2. n \in Nat /\ Len(qs) = T + n /\ P <= T + n /\ DOMAIN qs = 1..(T + n)
    BY <1>1 DEF AddsUp
<1>3. \A i \in 1..T : ~qs[i].retry
    BY <1>1 DEF AddsUp
<1>4. \A j \in 1..n : qs[T + j].retry /\ qs[T + j].item = rs[j]
    BY <1>1 DEF AddsUp
<1> HIDE DEF n
<1>5. ASSUME NEW i \in (T + 1)..(T + n)
      PROVE  qs[i].retry /\ i - T \in 1..n /\ qs[i].item = rs[i - T]
    <2>1. i - T \in 1..n /\ T + (i - T) = i
        BY <1>2
    <2> QED BY <1>4, <2>1
<1>6. first = 1..(IF P <= T THEN P ELSE T)
    <2>1. ASSUME NEW i \in 1..P
          PROVE  ~qs[i].retry <=> i <= T
        <3>1. i \in 1..T \/ (i \in (T + 1)..(T + n) /\ ~(i <= T))
            BY <1>2
        <3>2. i \in 1..T => i <= T
            OBVIOUS
        <3> QED BY <1>3, <1>5, <3>1, <3>2
    <2> QED BY <2>1
<1>7. Cardinality(first) = IF P <= T THEN P ELSE T
    <2>1. \A m \in Nat : Cardinality(1..m) = m
        BY FS_Interval
    <2> QED BY <1>6, <2>1
<1>8. R + n = IF P <= T THEN P ELSE T
    BY <1>1 DEF AddsUp, n
<1>9. \A i, j \in 1..n : rs[i] = rs[j] => i = j
    BY <1>1 DEF AddsUp, n
<1>10. {qs[i].item : i \in again} = Range(rs)
    <2>1. again = (T + 1)..(T + n)
        <3>1. \A i \in 1..(T + n) : i \in 1..T \/ i \in (T + 1)..(T + n)
            BY <1>2
        <3>2. \A i \in (T + 1)..(T + n) : i \in 1..(T + n)
            BY <1>2
        <3> QED BY <1>2, <1>3, <1>5, <3>1, <3>2
    <2>2. \A j \in 1..n : T + j \in (T + 1)..(T + n)
        BY <1>2
    <2>3. Range(rs) = {rs[j] : j \in 1..n}
        BY DEF Range, n
    <2> HIDE DEF again
    <2>4. \A x : x \in {qs[i].item : i \in again} => x \in Range(rs)
        BY <1>5, <2>1, <2>3
    <2>5. ASSUME NEW x \in Range(rs)
          PROVE  x \in {qs[i].item : i \in again}
        <3>1. PICK j \in 1..n : x = rs[j]
            BY <2>3
        <3>2. T + j \in again /\ qs[T + j].item = x
            BY <1>4, <2>1, <2>2, <3>1
        <3> QED BY <3>2
    <2> QED BY <2>4, <2>5
<1>11. P = T + n => R + n = T
    BY <1>2, <1>8
<1>12. DOMAIN rs = 1..n
    BY DEF n
<1> HIDE DEF first, again
<1>13. /\ R + n = Cardinality(first) /\ IsInjective(rs)
       /\ {qs[i].item : i \in again} = Range(rs)
       /\ Len(qs) = T + n
       /\ P = Len(qs) => R + n = T
    BY <1>2, <1>7, <1>8, <1>9, <1>10, <1>11, <1>12 DEF IsInjective
<1> QED BY <1>13 DEF first, again, n

\* Every step of the practice keeps the account.
LEMMA KanaInvKept ==
    ASSUME KanaInv, KanaStep
    PROVE  KanaInv'
<1> DEFINE Screens == {"table", "question", "feedback", "result"}
           K == [at : Screens, mode : {"read", "choose"}, round : Round]
           Well(k) == /\ k \in K /\ RoundInv(k.round)
                      /\ k.at = "question"
                             => k.round.position < Len(k.round.questions)
                      /\ k.at = "result"
                             => k.round.position = Len(k.round.questions)
<1>1. Well(kana) /\ (Well(kana') => KanaInv')
    BY DEF KanaInv
<1>2. ASSUME NEW a \in Screens, NEW m \in {"read", "choose"}, NEW r \in Round,
             RoundInv(r), a = "question" => r.position < Len(r.questions),
             a = "result" => r.position = Len(r.questions)
      PROVE  Well([at |-> a, mode |-> m, round |-> r])
    BY <1>2
<1>3. PICK a \in Screens, m \in {"read", "choose"}, r \in Round :
          kana = [at |-> a, mode |-> m, round |-> r]
    BY <1>1
<1>4. /\ RoundInv(r)
      /\ a = "question" => r.position < Len(r.questions)
      /\ a = "result" => r.position = Len(r.questions)
    BY <1>1, <1>3
<1>5. ASSUME NEW r2 \in Round, RoundInv(r2)
      PROVE  /\ ScreenAfter(r2) \in Screens
             /\ ScreenAfter(r2) = "question"
                    => r2.position < Len(r2.questions)
             /\ ScreenAfter(r2) = "result"
                    => r2.position = Len(r2.questions)
    <2>1. r2.position <= Len(r2.questions)
        BY <1>5 DEF RoundInv, AddsUp
    <2>2. r2.position \in Nat /\ Len(r2.questions) \in Nat
        BY DEF Round
    <2> QED BY <2>1, <2>2 DEF ScreenAfter
<1> HIDE DEF Well, K
<1>6. CASE KanaStarts
    <2>1. PICK r2 \in KanaRounds, m2 \in {"read", "choose"} :
              kana' = [at |-> "question", mode |-> m2, round |-> r2]
        BY <1>3, <1>6 DEF KanaStarts
    <2>2. r2 \in Round /\ RoundInv(r2) /\ r2.position < Len(r2.questions)
        BY RoundsStart
    <2>3. Well([at |-> "question", mode |-> m2, round |-> r2])
        BY <1>2, <2>2
    <2> QED BY <1>1, <2>1, <2>3
<1>7. CASE KanaLeaves
    <2>1. kana' = [at |-> "table", mode |-> m, round |-> NoRound]
        BY <1>3, <1>7 DEF KanaLeaves
    <2>2. Well([at |-> "table", mode |-> m, round |-> NoRound])
        BY <1>2, NoRoundIsRound
    <2> QED BY <1>1, <2>1, <2>2
<1>8. ASSUME NEW c \in BOOLEAN, KanaAnswers(c)
      PROVE  KanaInv'
    <2> DEFINE r2 == Answer(r, c)
    <2>1. r2 \in Round /\ RoundInv(r2)
        BY <1>3, <1>4, <1>8, AnswerKeeps DEF KanaAnswers
    <2>2. kana' = [at |-> IF m = "choose" THEN "feedback" ELSE ScreenAfter(r2),
                   mode |-> m, round |-> r2]
        BY <1>3, <1>8 DEF KanaAnswers
    <2> HIDE DEF r2
    <2>3. Well([at |-> IF m = "choose" THEN "feedback" ELSE ScreenAfter(r2),
                mode |-> m, round |-> r2])
        BY <1>2, <1>5, <2>1
    <2> QED BY <1>1, <2>2, <2>3
<1>9. CASE KanaReads
    BY <1>8, <1>9 DEF KanaReads
<1>10. CASE KanaChooses
    <2>1. PICK picked : KanaAnswers(picked = Romaji[Current(kana.round).item])
        BY <1>10 DEF KanaChooses
    <2> QED BY <1>8, <2>1
<1>11. CASE KanaGoesOn
    <2>1. kana' = [at |-> ScreenAfter(r), mode |-> m, round |-> r]
        BY <1>3, <1>11 DEF KanaGoesOn
    <2>2. Well([at |-> ScreenAfter(r), mode |-> m, round |-> r])
        BY <1>2, <1>4, <1>5
    <2> QED BY <1>1, <2>1, <2>2
<1>12. CASE KanaForgets
    BY <1>1, <1>12 DEF KanaForgets
<1>13. CASE KanaReloads
    <2>1. kana' = [at |-> "table", mode |-> m, round |-> NoRound]
        BY <1>3, <1>13 DEF KanaReloads
    <2>2. Well([at |-> "table", mode |-> m, round |-> NoRound])
        BY <1>2, NoRoundIsRound
    <2> QED BY <1>1, <2>1, <2>2
<1>14. CASE StorageTurns
    BY <1>1, <1>14 DEF StorageTurns
<1> QED BY <1>6, <1>7, <1>9, <1>10, <1>11, <1>12, <1>13, <1>14 DEF KanaStep

LEMMA KanaInvAlways == KanaInit /\ [][KanaStep]_kanaVars => []KanaInv
<1>1. KanaInit => KanaInv
    BY NoRoundIsRound DEF KanaInit, KanaInv
<1>2. KanaInv /\ [KanaStep]_kanaVars => KanaInv'
    <2>1. KanaInv /\ UNCHANGED kanaVars => KanaInv'
        BY DEF KanaInv, kanaVars
    <2> QED BY <2>1, KanaInvKept
<1> QED BY <1>1, <1>2, PTL

\* The result of a round adds up at every moment, for every pool of characters
\* (createKanaRound.answer, renderResult).
LEMMA RoundsAddUp ==
    KanaInit /\ [][KanaStep]_kanaVars => []KanaRoundAddsUp
<1>1. KanaInv => KanaRoundAddsUp
    <2> SUFFICES ASSUME KanaInv PROVE KanaRoundAddsUp
        OBVIOUS
    <2>1. kana.round \in Round /\ RoundInv(kana.round)
        BY DEF KanaInv
    <2>2. /\ kana.at = "question"
                 => kana.round.position < Len(kana.round.questions)
          /\ kana.at = "result"
                 => kana.round.position = Len(kana.round.questions)
        BY DEF KanaInv
    <2> QED BY <2>1, <2>2, RoundShows DEF KanaRoundAddsUp
<1> QED BY <1>1, KanaInvAlways, PTL

\* The counts: what the page and the storage have of them, and the answers.
Count == [correct : Nat, wrong : Nat]
CountsOf(D) == [D -> Count]
IsCounts(v) == \E D \in SUBSET Pool : v \in CountsOf(D)

\* The copy of the page m, the stored value d: the copy has the answers that
\* were given, and if there is none they are those the storage has.
CountsWell(m, d, g, s) ==
    /\ m = Absent \/ IsCounts(m)
    /\ d = Absent \/ IsCounts(d)
    /\ g \in CountsOf(Pool) /\ s \in CountsOf(Pool)
    /\ \A k \in Pool : KeptOf(d, k) = s[k]
    /\ m = Absent => g = s
    /\ m # Absent => \A k \in Pool : KeptOf(m, k) = g[k]

CountInv ==
    \E m, d, w :
        /\ kanaSlot = [memory |-> m, disk |-> d, works |-> w]
        /\ w \in BOOLEAN
        /\ CountsWell(m, d, given, stored)

\* Counts are accepted on a reload, and are not what stands for none.
LEMMA CountsAreValid ==
    ASSUME NEW v, IsCounts(v)
    PROVE  v # Absent /\ IsKanaProgress(v)
<1>1. PICK D \in SUBSET Pool : v \in [D -> [correct : Nat, wrong : Nat]]
    BY DEF IsCounts, CountsOf, Count
<1>2. v # Absent
    BY <1>1, KanaAssumption
<1>3. IsKanaProgress(v)
    BY <1>1 DEF IsKanaProgress
<1> QED BY <1>2, <1>3

\* What is kept of a character is a count.
LEMMA KeptIsCount ==
    ASSUME NEW v, v = Absent \/ IsCounts(v), NEW k \in Pool
    PROVE  KeptOf(v, k) \in Count
<1>1. NoCount \in Count
    BY DEF NoCount, Count
<1>2. CASE v = Absent
    BY <1>1, <1>2 DEF KeptOf
<1>3. CASE IsCounts(v)
    <2>1. PICK D \in SUBSET Pool : v \in CountsOf(D)
        BY <1>3 DEF IsCounts
    <2>2. DOMAIN v = D /\ (k \in D => v[k] \in Count)
        BY <2>1 DEF CountsOf
    <2> QED BY <1>1, <1>3, <2>2, CountsAreValid DEF KeptOf
<1> QED BY <1>2, <1>3

LEMMA OneMoreIsCount ==
    ASSUME NEW e \in Count, NEW c \in BOOLEAN
    PROVE  CountOne(e, c) \in Count
BY DEF Count, CountOne

\* recordKanaAnswer counts one answer of one character.
LEMMA CountedIs ==
    ASSUME NEW v, v = Absent \/ IsCounts(v), NEW k \in Pool,
           NEW c \in BOOLEAN
    PROVE  /\ IsCounts(Counted(v, k, c))
           /\ \A x \in Pool :
                  KeptOf(Counted(v, k, c), x) =
                      IF x = k THEN CountOne(KeptOf(v, k), c) ELSE KeptOf(v, x)
<1> DEFINE old == IF v = Absent THEN [x \in {} |-> NoCount] ELSE v
           entry == IF k \in DOMAIN old THEN old[k] ELSE NoCount
           f == [x \in DOMAIN old \cup {k} |->
                    IF x # k THEN old[x] ELSE CountOne(entry, c)]
<1>1. Counted(v, k, c) = f
    BY DEF Counted
<1>2. PICK D \in SUBSET Pool : old \in CountsOf(D)
    <2>1. CASE v = Absent
        <3>1. old \in CountsOf({})
            BY <2>1 DEF CountsOf
        <3> QED BY <3>1
    <2>2. CASE v # Absent
        BY <2>2 DEF IsCounts
    <2> QED BY <2>1, <2>2
<1>3. DOMAIN old = D /\ \A x \in D : old[x] \in Count
    BY <1>2 DEF CountsOf
<1>4. \A x \in Pool : KeptOf(v, x) = IF x \in D THEN old[x] ELSE NoCount
    <2>1. CASE v = Absent
        <3>1. DOMAIN old = {}
            BY <2>1
        <3> QED BY <1>3, <2>1, <3>1 DEF KeptOf
    <2>2. CASE v # Absent
        BY <1>3, <2>2 DEF KeptOf
    <2> QED BY <2>1, <2>2
<1>5. entry = KeptOf(v, k)
    BY <1>3, <1>4
<1>6. CountOne(entry, c) \in Count
    BY <1>5, KeptIsCount, OneMoreIsCount
<1> HIDE DEF old, entry
<1>7. f \in CountsOf(D \cup {k})
    BY <1>3, <1>6 DEF CountsOf
<1>8. D \cup {k} \in SUBSET Pool
    OBVIOUS
<1>9. IsCounts(f)
    BY <1>7, <1>8 DEF IsCounts
<1>10. f # Absent
    BY <1>9, CountsAreValid
<1>11. ASSUME NEW x \in Pool
       PROVE  KeptOf(f, x) =
                  IF x = k THEN CountOne(entry, c) ELSE KeptOf(v, x)
    <2>1. DOMAIN f = D \cup {k}
        BY <1>3
    <2>2. x \in D \cup {k} =>
              f[x] = IF x # k THEN old[x] ELSE CountOne(entry, c)
        BY <1>3
    <2> HIDE DEF f
    <2> QED BY <1>4, <1>10, <2>1, <2>2 DEF KeptOf
<1> HIDE DEF f
<1> QED BY <1>1, <1>5, <1>9, <1>11

\* An answer, the only step that writes counts.
LEMMA AnswerCounts ==
    ASSUME KanaInv, CountInv, NEW c \in BOOLEAN, KanaAnswers(c)
    PROVE  CountInv'
<1> DEFINE k == Current(kana.round).item
<1>1. k \in Pool
    <2>1. /\ kana.round \in Round /\ kana.at = "question"
          /\ kana.round.position < Len(kana.round.questions)
        BY DEF KanaInv, KanaAnswers
    <2>2. /\ kana.round.questions \in Seq(Question)
          /\ kana.round.position \in Nat
        BY <2>1 DEF Round
    <2>3. kana.round.position + 1 \in 1..Len(kana.round.questions)
        BY <2>1, <2>2
    <2>4. Current(kana.round) \in Question
        BY <2>2, <2>3 DEF Current
    <2> QED BY <2>4 DEF Question
<1>2. PICK m, d, w : /\ kanaSlot = [memory |-> m, disk |-> d, works |-> w]
                     /\ w \in BOOLEAN
                     /\ CountsWell(m, d, given, stored)
    BY DEF CountInv
<1> DEFINE v == IF m # Absent THEN m ELSE d
           n == Counted(v, k, c)
<1>3. /\ Record(k, c)
      /\ given' = [given EXCEPT ![k] = CountOne(@, c)]
      /\ stored' = IF w THEN given' ELSE stored
    BY <1>2 DEF KanaAnswers
<1> HIDE DEF k
<1>4. v = Absent \/ IsCounts(v)
    BY <1>2 DEF CountsWell
<1>5. \A x \in Pool : KeptOf(v, x) = given[x]
    BY <1>2 DEF CountsWell
<1>6. SlotRead(kanaSlot, IsKanaProgress(kanaSlot.disk))
          = [memory |-> v, disk |-> d, works |-> w]
    <2>1. SlotValue(kanaSlot, IsKanaProgress(kanaSlot.disk)) = v
        BY <1>2, CountsAreValid DEF CountsWell, SlotValue
    <2> QED BY <1>2, <2>1 DEF SlotRead
<1>7. /\ IsCounts(n) /\ n # Absent /\ IsKanaProgress(n)
      /\ \A x \in Pool :
             KeptOf(n, x) = IF x = k THEN CountOne(KeptOf(v, k), c)
                            ELSE KeptOf(v, x)
    BY <1>1, <1>4, CountedIs, CountsAreValid
<1> DEFINE rd == [memory |-> v, disk |-> d, works |-> w]
<1>8. kanaSlot' = SlotWritten(rd, Counted(rd.memory, k, c),
                              IsKanaProgress(Counted(rd.memory, k, c)))
    BY <1>3, <1>6 DEF Record
<1>9. rd.memory = v /\ rd.disk = d /\ rd.works = w
    OBVIOUS
<1>10. kanaSlot' = SlotWritten(rd, n, IsKanaProgress(n))
    BY <1>8, <1>9
<1> HIDE DEF v, n
<1>11. kanaSlot' = [memory |-> n, disk |-> IF w THEN n ELSE d, works |-> w]
    BY <1>7, <1>10 DEF SlotWritten
<1>12. /\ given' \in CountsOf(Pool)
       /\ \A x \in Pool : KeptOf(n, x) = given'[x]
    <2>1. given \in CountsOf(Pool)
        BY <1>2 DEF CountsWell
    <2>2. CountOne(given[k], c) \in Count
        BY <1>1, <2>1, OneMoreIsCount DEF CountsOf
    <2>3. given' \in CountsOf(Pool)
        BY <1>3, <2>1, <2>2 DEF CountsOf
    <2>4. \A x \in Pool : given'[x] = IF x = k THEN CountOne(given[k], c)
                                      ELSE given[x]
        BY <1>3, <2>1 DEF CountsOf
    <2> QED BY <1>1, <1>5, <1>7, <2>3, <2>4
<1>13. CountsWell(n, IF w THEN n ELSE d, given', stored')
    <2>1. CASE w
        BY <1>3, <1>7, <1>12, <2>1 DEF CountsWell
    <2>2. CASE ~w
        BY <1>2, <1>3, <1>7, <1>12, <2>2 DEF CountsWell
    <2> QED BY <1>2, <2>1, <2>2
<1> QED BY <1>2, <1>11, <1>13 DEF CountInv

LEMMA CountInvKept ==
    ASSUME KanaInv, CountInv, [KanaStep]_kanaVars
    PROVE  CountInv'
<1>1. PICK m, d, w : /\ kanaSlot = [memory |-> m, disk |-> d, works |-> w]
                     /\ w \in BOOLEAN
                     /\ CountsWell(m, d, given, stored)
    BY DEF CountInv
<1>2. ASSUME UNCHANGED <<kanaSlot, given, stored>>
      PROVE  CountInv'
    BY <1>1, <1>2 DEF CountInv
<1>3. CASE KanaStarts \/ KanaLeaves \/ KanaGoesOn
    BY <1>2, <1>3 DEF KanaStarts, KanaLeaves, KanaGoesOn
<1>4. CASE KanaReads
    BY <1>4, AnswerCounts DEF KanaReads
<1>5. CASE KanaChooses
    <2>1. PICK picked : KanaAnswers(picked = Romaji[Current(kana.round).item])
        BY <1>5 DEF KanaChooses
    <2> QED BY <2>1, AnswerCounts
<1>6. CASE KanaForgets
    <2>1. /\ kanaSlot' = [memory |-> Absent, disk |-> Absent, works |-> w]
          /\ given' = NothingGiven /\ stored' = NothingGiven
        BY <1>1, <1>6 DEF KanaForgets, SlotRemoved
    <2>2. CountsWell(Absent, Absent, NothingGiven, NothingGiven)
        BY DEF CountsWell, CountsOf, Count, NothingGiven, NoCount, KeptOf
    <2> QED BY <1>1, <2>1, <2>2 DEF CountInv
<1>7. CASE KanaReloads
    <2>1. /\ kanaSlot' = [memory |-> Absent, disk |-> d, works |-> w]
          /\ given' = stored /\ stored' = stored
        BY <1>1, <1>7 DEF KanaReloads, SlotReloaded
    <2>2. CountsWell(Absent, d, stored, stored)
        BY <1>1 DEF CountsWell
    <2> QED BY <1>1, <2>1, <2>2 DEF CountInv
<1>8. CASE StorageTurns
    <2>1. /\ kanaSlot' = [memory |-> m, disk |-> d, works |-> ~w]
          /\ given' = given /\ stored' = stored
        BY <1>1, <1>8 DEF StorageTurns
    <2> QED BY <1>1, <2>1 DEF CountInv
<1>9. CASE UNCHANGED kanaVars
    BY <1>2, <1>9 DEF kanaVars
<1> QED BY <1>3, <1>4, <1>5, <1>6, <1>7, <1>8, <1>9 DEF KanaStep

\* The kept counts are the answers given, over rounds that are given up,
\* reloads and a storage that is full at times, for every pool
\* (recordKanaAnswer, localSlot).
LEMMA CountsComeBack ==
    KanaInit /\ [][KanaStep]_kanaVars => []KanaCountsAreKept
<1>1. KanaInit => CountInv
    <2> SUFFICES ASSUME KanaInit PROVE CountInv
        OBVIOUS
    <2>1. PICK w \in BOOLEAN :
              kanaSlot = [memory |-> Absent, disk |-> Absent, works |-> w]
        BY DEF KanaInit, EmptySlots
    <2>2. CountsWell(Absent, Absent, NothingGiven, NothingGiven)
        BY DEF CountsWell, CountsOf, Count, NothingGiven, NoCount, KeptOf
    <2> QED BY <2>1, <2>2 DEF KanaInit, CountInv
<1>2. KanaInv /\ CountInv /\ [KanaStep]_kanaVars => CountInv'
    BY CountInvKept
<1>3. CountInv => KanaCountsAreKept
    <2> SUFFICES ASSUME CountInv PROVE KanaCountsAreKept
        OBVIOUS
    <2>1. PICK m, d, w : /\ kanaSlot = [memory |-> m, disk |-> d, works |-> w]
                         /\ w \in BOOLEAN
                         /\ CountsWell(m, d, given, stored)
        BY DEF CountInv
    <2>2. KanaKept = IF m # Absent THEN m ELSE d
        BY <2>1, CountsAreValid DEF CountsWell, KanaKept, SlotValue
    <2>3. SlotValue(SlotReloaded(kanaSlot), IsKanaProgress(kanaSlot.disk)) = d
        BY <2>1, CountsAreValid DEF CountsWell, SlotReloaded, SlotValue
    <2> QED BY <2>1, <2>2, <2>3 DEF CountsWell, KanaCountsAreKept
<1> QED BY <1>1, <1>2, <1>3, KanaInvAlways, PTL

\* Kana practice adds up, the round and the kept counts, for every pool of
\* characters, over reloads and a storage that is full at times
\* (createKanaRound, recordKanaAnswer, localSlot).
THEOREM PracticeAddsUp ==
    KanaInit /\ [][KanaStep]_kanaVars => []KanaAddsUp
BY RoundsAddUp, CountsComeBack, PTL DEF KanaAddsUp

-----------------------------------------------------------------------------
(* The demo *)

\* A progress, by its parts, and with some of them changed.
Made(pos, seen, rp, pb, q, rv) ==
    [position |-> pos, seen |-> seen, reports |-> rp, probed |-> pb,
     queue |-> q, reviewed |-> rv]

LEMMA QueueChanged ==
    ASSUME NEW pos, NEW seen, NEW rp, NEW pb, NEW q, NEW rv, NEW x
    PROVE  [Made(pos, seen, rp, pb, q, rv) EXCEPT !.queue = x]
               = Made(pos, seen, rp, pb, x, rv)
BY DEF Made

LEMMA ReportsChanged ==
    ASSUME NEW pos, NEW seen, NEW rp, NEW pb, NEW q, NEW rv, NEW x
    PROVE  [Made(pos, seen, rp, pb, q, rv) EXCEPT !.reports = x]
               = Made(pos, seen, x, pb, q, rv)
BY DEF Made

LEMMA ProbedChanged ==
    ASSUME NEW pos, NEW seen, NEW rp, NEW pb, NEW q, NEW rv, NEW x
    PROVE  [Made(pos, seen, rp, pb, q, rv) EXCEPT !.probed = x]
               = Made(pos, seen, rp, x, q, rv)
BY DEF Made

LEMMA PlaceChanged ==
    ASSUME NEW pos, NEW seen, NEW rp, NEW pb, NEW q, NEW rv, NEW k
    PROVE  ShowReview(Made(pos, seen, rp, pb, q, rv), k)
               = Made(q[k].index, seen, rp, pb, RemoveAt(q, k),
                      Append(rv, q[k].index))
<1> DEFINE x == q[k].index
           y == RemoveAt(q, k)
           z == Append(rv, x)
           p == Made(pos, seen, rp, pb, q, rv)
           a == Made(x, seen, rp, pb, q, rv)
           b == Made(x, seen, rp, pb, y, rv)
<1>1. /\ p.queue[k].index = x /\ RemoveAt(p.queue, k) = y
      /\ Append(p.reviewed, p.queue[k].index) = z
    BY DEF Made
<1>2. ShowReview(p, k)
          = [p EXCEPT !.position = x, !.queue = y, !.reviewed = z]
    BY <1>1 DEF ShowReview
<1> HIDE DEF x, y, z
<1>3. [p EXCEPT !.position = x] = a
    BY DEF Made
<1>4. [a EXCEPT !.queue = y] = b
    BY DEF Made
<1>5. [b EXCEPT !.reviewed = z] = Made(x, seen, rp, pb, y, z)
    BY DEF Made
<1>6. [p EXCEPT !.position = x, !.queue = y, !.reviewed = z]
          = [[[p EXCEPT !.position = x] EXCEPT !.queue = y]
             EXCEPT !.reviewed = z]
    OBVIOUS
<1>7. ShowReview(p, k) = Made(x, seen, rp, pb, y, z)
    BY <1>2, <1>3, <1>4, <1>5, <1>6
<1> QED BY <1>7 DEF x, y, z

Entry == [index : Nat, due : Nat]
Ask == [item : Words, seen : Nat]

LEMMA WordsAreSets ==
    /\ Total \in Nat /\ Sentences = 1..Total
    /\ \A i \in 1..Total : WordsOf[i] \subseteq Words
BY DemoAssumption DEF Total, Sentences

\* What waits to be shown again (q) and what was (rv), of the sentences seen so
\* far: each of them at most once in the two together.
Queued(seen, q, rv) ==
    /\ \A i \in 1..Len(q) : q[i].index \in 1..seen
    /\ \A i, j \in 1..Len(q) : q[i].index = q[j].index => i = j
    /\ \A i \in 1..Len(rv) : rv[i] \in 1..seen
    /\ \A i, j \in 1..Len(rv) : rv[i] = rv[j] => i = j
    /\ \A i \in 1..Len(q), j \in 1..Len(rv) : q[i].index # rv[j]

\* Which words were asked for and when, none twice.
Asked(seen, pb) ==
    /\ \A b \in pb : b.seen \in 1..seen
    /\ \A b, c \in pb : b.item = c.item => b = c

\* The place of the sentence on the screen.
Placed(pos, seen, q) ==
    /\ seen \in 0..Total
    /\ pos = Total + 1 => seen = Total /\ q = <<>>
    /\ pos # Total + 1 => pos \in 1..seen

\* isProgressOf says of a progress what its parts say of each other.
LEMMA ProgressIs ==
    ASSUME NEW pos \in Nat, NEW seen \in Nat, NEW rp \in SUBSET Words,
           NEW pb \in SUBSET Ask, NEW q \in Seq(Entry), NEW rv \in Seq(Nat)
    PROVE  LET p == [position |-> pos, seen |-> seen, reports |-> rp,
                     probed |-> pb, queue |-> q, reviewed |-> rv]
           IN /\ p \in Progress
              /\ IsProgressOf(p) <=> /\ Placed(pos, seen, q)
                                     /\ Asked(seen, pb)
                                     /\ Queued(seen, q, rv)
<1> DEFINE p == [position |-> pos, seen |-> seen, reports |-> rp,
                 probed |-> pb, queue |-> q, reviewed |-> rv]
<1>1. p \in Progress
    BY DEF Progress, Entry, Ask
<1>2. p # Foreign
    BY <1>1, DemoAssumption
<1>3. /\ p.position = pos /\ p.seen = seen /\ p.reports = rp
      /\ p.probed = pb /\ p.queue = q /\ p.reviewed = rv
    OBVIOUS
<1> HIDE DEF p
<1>4. IsComplete(p) <=> pos = Total + 1
    BY <1>3 DEF IsComplete
<1>5. \A b \in pb : b.item \in Words
    BY DEF Ask
<1>6. DOMAIN q = 1..Len(q) /\ DOMAIN rv = 1..Len(rv)
    OBVIOUS
<1>7. (\A i \in 1..Len(q) : q[i].index \notin Range(rv))
          <=> \A i \in 1..Len(q), j \in 1..Len(rv) : q[i].index # rv[j]
    BY <1>6 DEF Range
<1>8. (seen \in 0..Total /\ IF IsComplete(p) THEN seen = Total /\ q = <<>>
                                             ELSE pos \in 1..seen)
          <=> Placed(pos, seen, q)
    BY <1>4 DEF Placed
<1>9. (/\ \A b \in pb : b.item \in Words /\ b.seen \in 1..seen
       /\ \A b, c \in pb : b.item = c.item => b = c) <=> Asked(seen, pb)
    BY <1>5 DEF Asked
<1>10. (/\ \A i \in DOMAIN q : q[i].index \in 1..seen
        /\ \A i, j \in DOMAIN q : q[i].index = q[j].index => i = j
        /\ \A i \in DOMAIN rv : rv[i] \in 1..seen
        /\ IsInjective(rv)
        /\ \A i \in DOMAIN q : q[i].index \notin Range(rv))
           <=> Queued(seen, q, rv)
    BY <1>6, <1>7 DEF Queued, IsInjective
<1>11. IsProgressOf(p) <=> /\ Placed(pos, seen, q)
                           /\ Asked(seen, pb)
                           /\ Queued(seen, q, rv)
    BY <1>2, <1>3, <1>8, <1>9, <1>10 DEF IsProgressOf
<1> QED BY <1>1, <1>11 DEF p

\* A sentence that is shown again leaves the queue for good.
LEMMA ShownAgain ==
    ASSUME NEW seen \in Nat, NEW q \in Seq(Entry), NEW rv \in Seq(Nat),
           NEW k \in 1..Len(q), Queued(seen, q, rv)
    PROVE  /\ RemoveAt(q, k) \in Seq(Entry)
           /\ Append(rv, q[k].index) \in Seq(Nat)
           /\ Len(Append(rv, q[k].index)) = Len(rv) + 1
           /\ Queued(seen, RemoveAt(q, k), Append(rv, q[k].index))
<1> DEFINE n == Len(q)
           m == Len(rv)
           q2 == RemoveAt(q, k)
           x == q[k].index
           r2 == Append(rv, x)
           At(i) == IF i < k THEN i ELSE i + 1
<1>1. n \in Nat /\ m \in Nat /\ k \in 1..n /\ q[k] \in Entry
    OBVIOUS
<1>2. x \in Nat /\ x \in 1..seen
    BY <1>1 DEF Entry, Queued
<1>3. /\ q2 \in Seq(Entry) /\ Len(q2) = n - 1
      /\ \A i \in 1..(n - 1) : q2[i] = q[At(i)]
    <2> DEFINE a == SubSeq(q, 1, k - 1)
               b == SubSeq(q, k + 1, n)
    <2>1. /\ a \in Seq(Entry) /\ Len(a) = k - 1
          /\ \A i \in 1..(k - 1) : a[i] = q[i]
        BY <1>1
    <2>2. b \in Seq(Entry)
        BY <1>1
    <2>3. /\ Len(b) = n - k
          /\ \A i \in 1..(n - k) : b[i] = q[k + i]
        BY <1>1
    <2>4. q2 = a \o b
        BY DEF RemoveAt
    <2> HIDE DEF a, b, q2, n
    <2>5. /\ q2 \in Seq(Entry) /\ Len(q2) = (k - 1) + (n - k)
          /\ \A i \in 1..Len(a) : q2[i] = a[i]
          /\ \A i \in 1..Len(b) : q2[Len(a) + i] = b[i]
        <3>1. a \in Seq(Entry) /\ b \in Seq(Entry)
            BY <2>1, <2>2
        <3>2. /\ a \o b \in Seq(Entry) /\ Len(a \o b) = Len(a) + Len(b)
              /\ \A i \in 1..Len(a) : (a \o b)[i] = a[i]
            BY <3>1
        <3>3. ASSUME NEW i \in 1..Len(b)
              PROVE  (a \o b)[Len(a) + i] = b[i]
            BY <3>1
        <3> QED BY <2>1, <2>3, <2>4, <3>2, <3>3
    <2>6. ASSUME NEW i \in 1..(n - 1)
          PROVE  q2[i] = q[At(i)]
        <3>1. CASE i < k
            <4>1. i \in 1..(k - 1)
                BY <1>1, <3>1
            <4> QED BY <2>1, <2>5, <3>1, <4>1
        <3>2. CASE ~(i < k)
            <4>1. /\ i - (k - 1) \in 1..(n - k)
                  /\ (k - 1) + (i - (k - 1)) = i
                  /\ k + (i - (k - 1)) = i + 1
                BY <1>1, <3>2
            <4>2. q2[(k - 1) + (i - (k - 1))] = b[i - (k - 1)]
                BY <2>1, <2>3, <2>5, <4>1
            <4> QED BY <2>3, <3>2, <4>1, <4>2
        <3> QED BY <3>1, <3>2
    <2> QED BY <1>1, <2>5, <2>6
<1>4. \A i \in 1..(n - 1) : At(i) \in 1..n /\ At(i) # k
    BY <1>1
<1>5. \A i, j \in 1..(n - 1) : At(i) = At(j) => i = j
    BY <1>1
<1>6. r2 \in Seq(Nat) /\ Len(r2) = m + 1 /\ r2[m + 1] = x
    BY <1>2
<1>7. \A i \in 1..m : r2[i] = rv[i]
    BY <1>2
<1>8. /\ \A i \in 1..n : q[i].index \in 1..seen
      /\ \A i, j \in 1..n : q[i].index = q[j].index => i = j
      /\ \A i \in 1..m : rv[i] \in 1..seen
      /\ \A i, j \in 1..m : rv[i] = rv[j] => i = j
      /\ \A i \in 1..n, j \in 1..m : q[i].index # rv[j]
    BY DEF Queued
<1>9. \A i \in 1..n : i # k => q[i].index # x
    BY <1>1, <1>8
<1>10. \A j \in 1..m : rv[j] # x
    BY <1>1, <1>8
<1> HIDE DEF n, m, q2, x, r2, At
<1>11. \A i \in 1..(m + 1) : i \in 1..m \/ i = m + 1
    BY <1>1
<1>12. \A i \in 1..(n - 1) : q2[i].index \in 1..seen /\ q2[i].index # x
    BY <1>3, <1>4, <1>8, <1>9
<1>13. \A i, j \in 1..(n - 1) : q2[i].index = q2[j].index => i = j
    <2> TAKE i \in 1..(n - 1), j \in 1..(n - 1)
    <2>1. q2[i] = q[At(i)] /\ q2[j] = q[At(j)]
        BY <1>3
    <2>2. At(i) \in 1..n /\ At(j) \in 1..n
        BY <1>4
    <2>3. q[At(i)].index = q[At(j)].index => At(i) = At(j)
        BY <1>8, <2>2
    <2> QED BY <1>5, <2>1, <2>3
<1>14. \A i \in 1..(m + 1) : r2[i] \in 1..seen
    BY <1>2, <1>6, <1>7, <1>8, <1>11
<1>15. \A i, j \in 1..(m + 1) : r2[i] = r2[j] => i = j
    <2>1. \A i \in 1..m : r2[i] # r2[m + 1]
        BY <1>6, <1>7, <1>10
    <2>2. \A i, j \in 1..m : r2[i] = r2[j] => i = j
        BY <1>7, <1>8
    <2> TAKE i \in 1..(m + 1), j \in 1..(m + 1)
    <2>3. CASE i \in 1..m /\ j \in 1..m
        BY <2>2, <2>3
    <2>4. CASE i = m + 1 \/ j = m + 1
        BY <1>11, <2>1, <2>4
    <2> QED BY <1>11, <2>3, <2>4
<1>16. \A i \in 1..(n - 1), j \in 1..(m + 1) : q2[i].index # r2[j]
    <2> TAKE i \in 1..(n - 1), j \in 1..(m + 1)
    <2>1. CASE j = m + 1
        BY <1>6, <1>12, <2>1
    <2>2. CASE j \in 1..m
        BY <1>3, <1>4, <1>7, <1>8, <2>2
    <2> QED BY <1>11, <2>1, <2>2
<1>17. Queued(seen, q2, r2)
    BY <1>3, <1>6, <1>12, <1>13, <1>14, <1>15, <1>16 DEF Queued
<1> QED BY <1>3, <1>6, <1>17 DEF q2, r2, x, m

\* A sentence that waits for its second showing did not wait for it before.
LEMMA WaitsOnce ==
    ASSUME NEW seen \in Nat, NEW q \in Seq(Entry), NEW rv \in Seq(Nat),
           Queued(seen, q, rv), NEW x \in 1..seen, NEW e \in Entry,
           e.index = x,
           \A i \in 1..Len(q) : q[i].index # x,
           \A j \in 1..Len(rv) : rv[j] # x
    PROVE  Append(q, e) \in Seq(Entry) /\ Queued(seen, Append(q, e), rv)
<1> DEFINE n == Len(q)
           q2 == Append(q, e)
<1>1. n \in Nat /\ q2 \in Seq(Entry) /\ Len(q2) = n + 1 /\ q2[n + 1] = e
    OBVIOUS
<1>2. \A i \in 1..n : q2[i] = q[i]
    OBVIOUS
<1>3. /\ \A i \in 1..n : q[i].index \in 1..seen
      /\ \A i, j \in 1..n : q[i].index = q[j].index => i = j
      /\ \A i \in 1..n, j \in 1..Len(rv) : q[i].index # rv[j]
    BY DEF Queued
<1>4. \A i \in 1..n : q[i].index # x
    OBVIOUS
<1> HIDE DEF n, q2
<1>5. \A i \in 1..(n + 1) : i \in 1..n \/ i = n + 1
    BY <1>1
<1>6. \A i \in 1..(n + 1) : q2[i].index \in 1..seen
    BY <1>1, <1>2, <1>3, <1>5
<1>7. \A i, j \in 1..(n + 1) : q2[i].index = q2[j].index => i = j
    <2>1. \A i \in 1..n : q2[i].index # q2[n + 1].index
        BY <1>1, <1>2, <1>4
    <2>2. \A i, j \in 1..n : q2[i].index = q2[j].index => i = j
        BY <1>2, <1>3
    <2> TAKE i \in 1..(n + 1), j \in 1..(n + 1)
    <2>3. CASE i \in 1..n /\ j \in 1..n
        BY <2>2, <2>3
    <2>4. CASE i = n + 1 \/ j = n + 1
        BY <1>5, <2>1, <2>4
    <2> QED BY <1>5, <2>3, <2>4
<1>8. \A i \in 1..(n + 1), j \in 1..Len(rv) : q2[i].index # rv[j]
    BY <1>1, <1>2, <1>3, <1>5
<1>9. Queued(seen, q2, rv)
    BY <1>1, <1>6, <1>7, <1>8 DEF Queued
<1> QED BY <1>1, <1>9 DEF q2

\* What is kept of the sentences seen stays true of one more.
LEMMA SeenOneMore ==
    ASSUME NEW seen \in Nat, NEW q, NEW rv, NEW pb
    PROVE  /\ Queued(seen, q, rv) => Queued(seen + 1, q, rv)
           /\ Asked(seen, pb) => Asked(seen + 1, pb)
<1>1. \A i : i \in 1..seen => i \in 1..(seen + 1)
    OBVIOUS
<1>2. Queued(seen, q, rv) => Queued(seen + 1, q, rv)
    BY <1>1 DEF Queued
<1>3. Asked(seen, pb) => Asked(seen + 1, pb)
    BY <1>1 DEF Asked
<1> QED BY <1>2, <1>3

\* "Next" keeps a progress that isProgressOf accepts, and shortens the rest.
LEMMA AdvanceKeeps ==
    ASSUME NEW p \in Progress, IsProgressOf(p), ~IsComplete(p)
    PROVE  /\ Advance(p) \in Progress /\ IsProgressOf(Advance(p))
           /\ DemoRest(Advance(p)) < DemoRest(p)
<1> PICK pos \in Nat, seen \in Nat, rp \in SUBSET Words, pb \in SUBSET Ask,
        q \in Seq(Entry), rv \in Seq(Nat) :
        p = [position |-> pos, seen |-> seen, reports |-> rp, probed |-> pb,
             queue |-> q, reviewed |-> rv]
    BY DEF Progress, Ask, Entry
<1>1. Placed(pos, seen, q) /\ Asked(seen, pb) /\ Queued(seen, q, rv)
    BY ProgressIs
<1>2. /\ p.position = pos /\ p.seen = seen /\ p.queue = q
      /\ p.reviewed = rv
    OBVIOUS
<1>3. /\ Total \in Nat /\ seen \in 0..Total /\ pos # Total + 1
      /\ pos \in 1..seen /\ Len(rv) \in Nat
    BY <1>1, <1>2, WordsAreSets DEF IsComplete, Placed
<1>4. DemoRest(p) = (Total - seen) + (Total - Len(rv)) + 1
    BY <1>2 DEF DemoRest
<1> DEFINE due == {k \in DOMAIN q : q[k].due <= seen}
<1>5. ASSUME NEW k \in 1..Len(q)
      PROVE  LET p2 == ShowReview(p, k)
             IN p2 \in Progress /\ IsProgressOf(p2) /\ DemoRest(p2) < DemoRest(p)
    <2> DEFINE q2 == RemoveAt(q, k)
               x == q[k].index
               r2 == Append(rv, x)
               p2 == [position |-> x, seen |-> seen, reports |-> rp,
                      probed |-> pb, queue |-> q2, reviewed |-> r2]
    <2>1. ShowReview(p, k) = p2
        <3>1. p = Made(pos, seen, rp, pb, q, rv)
            BY DEF Made
        <3>2. p2 = Made(x, seen, rp, pb, q2, r2)
            BY DEF Made
        <3> HIDE DEF p2
        <3> QED BY <3>1, <3>2, PlaceChanged DEF x, q2, r2
    <2>2. /\ q2 \in Seq(Entry) /\ r2 \in Seq(Nat) /\ Len(r2) = Len(rv) + 1
          /\ Queued(seen, q2, r2)
        BY <1>1, ShownAgain
    <2>3. x \in 1..seen
        BY <1>1 DEF Queued
    <2> HIDE DEF q2, x, r2
    <2>4. x \in Nat /\ x # Total + 1 /\ Placed(x, seen, q2)
        BY <1>3, <2>3 DEF Placed
    <2>5. p2 \in Progress /\ IsProgressOf(p2)
        BY <1>1, <2>2, <2>4, ProgressIs
    <2>6. DemoRest(p2) = (Total - seen) + (Total - Len(r2)) + 1
        BY <2>4 DEF DemoRest, IsComplete
    <2> HIDE DEF p2
    <2>7. DemoRest(p2) < DemoRest(p)
        BY <1>3, <1>4, <2>2, <2>6
    <2> QED BY <2>1, <2>5, <2>7
<1>6. CASE due # {}
    <2>1. due \in SUBSET Nat /\ due \subseteq 1..Len(q)
        OBVIOUS
    <2>2. PICK k \in due : \A j \in due : k <= j
        BY <1>6, <2>1, LeastExists
    <2> HIDE DEF due
    <2>3. Min(due) \in due
        BY <2>2 DEF Min
    <2>4. Advance(p) = ShowReview(p, Min(due))
        BY <1>2, <1>6 DEF Advance, due
    <2> QED BY <1>5, <2>1, <2>3, <2>4
<1>7. CASE due = {} /\ seen < Total
    <2> DEFINE p2 == [position |-> seen + 1, seen |-> seen + 1,
                      reports |-> rp, probed |-> pb, queue |-> q,
                      reviewed |-> rv]
    <2>1. Advance(p) = p2
        <3>1. Advance(p) = [p EXCEPT !.position = p.seen + 1, !.seen = @ + 1]
            BY <1>2, <1>7 DEF Advance
        <3> QED BY <3>1
    <2>2. Asked(seen + 1, pb) /\ Queued(seen + 1, q, rv)
        BY <1>1, SeenOneMore
    <2>3. Placed(seen + 1, seen + 1, q) /\ seen + 1 \in Nat
        BY <1>3, <1>7 DEF Placed
    <2>4. p2 \in Progress /\ IsProgressOf(p2)
        BY <2>2, <2>3, ProgressIs
    <2>5. DemoRest(p2) = (Total - (seen + 1)) + (Total - Len(rv)) + 1
        <3>1. seen + 1 # Total + 1
            BY <1>3, <1>7
        <3> QED BY <3>1 DEF DemoRest, IsComplete
    <2> HIDE DEF p2
    <2>6. DemoRest(p2) < DemoRest(p)
        BY <1>3, <1>4, <2>5
    <2> QED BY <2>1, <2>4, <2>6
<1>8. CASE due = {} /\ ~(seen < Total) /\ q # <<>>
    <2>1. 1 \in 1..Len(q)
        BY <1>8
    <2>2. seen = Total
        BY <1>3, <1>8
    <2>3. Advance(p) = ShowReview(p, 1)
        BY <1>2, <1>8, <2>2 DEF Advance
    <2> QED BY <1>5, <2>1, <2>3
<1>9. CASE due = {} /\ ~(seen < Total) /\ q = <<>>
    <2> DEFINE p2 == [position |-> Total + 1, seen |-> seen, reports |-> rp,
                      probed |-> pb, queue |-> q, reviewed |-> rv]
    <2>1. Advance(p) = p2
        BY <1>2, <1>9 DEF Advance
    <2>2. Placed(Total + 1, seen, q) /\ Total + 1 \in Nat
        BY <1>3, <1>9 DEF Placed
    <2>3. p2 \in Progress /\ IsProgressOf(p2)
        BY <1>1, <2>2, ProgressIs
    <2>4. DemoRest(p2) = (Total - seen) + (Total - Len(rv)) + 0
        BY DEF DemoRest, IsComplete
    <2> HIDE DEF p2
    <2>5. DemoRest(p2) < DemoRest(p)
        BY <1>3, <1>4, <2>4
    <2> QED BY <2>1, <2>3, <2>5
<1> QED BY <1>6, <1>7, <1>8, <1>9

\* What waits to be shown again is not asked for a second time.
LEMMA EnqueueKeeps ==
    ASSUME NEW p \in Progress, IsProgressOf(p), ~IsComplete(p),
           NEW i \in 1..p.seen
    PROVE  /\ Enqueue(p, i) \in Progress /\ IsProgressOf(Enqueue(p, i))
           /\ DemoRest(Enqueue(p, i)) = DemoRest(p)
           /\ Enqueue(p, i).position = p.position
<1> PICK pos \in Nat, seen \in Nat, rp \in SUBSET Words, pb \in SUBSET Ask,
        q \in Seq(Entry), rv \in Seq(Nat) :
        p = [position |-> pos, seen |-> seen, reports |-> rp, probed |-> pb,
             queue |-> q, reviewed |-> rv]
    BY DEF Progress, Ask, Entry
<1> DEFINE e == [index |-> i, due |-> seen + ReviewAfter]
           q2 == Append(q, e)
           p2 == [position |-> pos, seen |-> seen, reports |-> rp,
                  probed |-> pb, queue |-> q2, reviewed |-> rv]
<1>3. Placed(pos, seen, q) /\ Asked(seen, pb) /\ Queued(seen, q, rv)
    BY ProgressIs
<1>4. pos # Total + 1 /\ p.seen = seen /\ i \in 1..seen
    BY DEF IsComplete
<1>1. CASE i \in Range(rv) \/ \E k \in DOMAIN q : q[k].index = i
    <2>1. Enqueue(p, i) = p
        BY <1>1 DEF Enqueue
    <2> QED BY <2>1
<1>2. CASE ~(i \in Range(rv) \/ \E k \in DOMAIN q : q[k].index = i)
    <2>1. Enqueue(p, i) = p2
        <3>1. Enqueue(p, i) = [p EXCEPT !.queue = Append(@, e)]
            BY <1>2 DEF Enqueue
        <3>2. Append(p.queue, e) = q2
            OBVIOUS
        <3> HIDE DEF q2
        <3>3. [p EXCEPT !.queue = q2] = p2
            <4>1. p = Made(pos, seen, rp, pb, q, rv)
                BY DEF Made
            <4>2. p2 = Made(pos, seen, rp, pb, q2, rv)
                BY DEF Made
            <4> HIDE DEF p2
            <4> QED BY <4>1, <4>2, QueueChanged
        <3> QED BY <3>1, <3>2, <3>3
    <2>2. e \in Entry /\ e.index = i
        BY DemoAssumption DEF Entry
    <2>3. /\ \A k \in 1..Len(q) : q[k].index # i
          /\ \A k \in 1..Len(rv) : rv[k] # i
        BY <1>2 DEF Range
    <2> HIDE DEF e
    <2>4. q2 \in Seq(Entry) /\ Queued(seen, q2, rv)
        BY <1>3, <1>4, <2>2, <2>3, WaitsOnce
    <2> HIDE DEF q2
    <2>5. Placed(pos, seen, q2)
        BY <1>3, <1>4 DEF Placed
    <2>6. p2 \in Progress /\ IsProgressOf(p2)
        BY <1>3, <2>4, <2>5, ProgressIs
    <2>7. DemoRest(p2) = DemoRest(p)
        BY DEF DemoRest, IsComplete
    <2>8. p2.position = p.position
        OBVIOUS
    <2> HIDE DEF p2
    <2> QED BY <2>1, <2>6, <2>7, <2>8
<1> QED BY <1>1, <1>2

\* A judgement of a word on the screen keeps the progress and what is left.
LEMMA ReportKeeps ==
    ASSUME NEW p \in Progress, IsProgressOf(p), NEW w \in Words,
           NEW c \in BOOLEAN
    PROVE  LET p2 == RecordSelfReport(p, w, c)
           IN /\ p2 \in Progress /\ IsProgressOf(p2)
              /\ DemoRest(p2) = DemoRest(p) /\ p2.position = p.position
<1> PICK pos \in Nat, seen \in Nat, rp \in SUBSET Words, pb \in SUBSET Ask,
        q \in Seq(Entry), rv \in Seq(Nat) :
        p = [position |-> pos, seen |-> seen, reports |-> rp, probed |-> pb,
             queue |-> q, reviewed |-> rv]
    BY DEF Progress, Ask, Entry
<1>1. Placed(pos, seen, q) /\ Asked(seen, pb) /\ Queued(seen, q, rv)
    BY ProgressIs
<1> DEFINE r2 == rp \cup {w}
           next == [position |-> pos, seen |-> seen, reports |-> r2,
                    probed |-> pb, queue |-> q, reviewed |-> rv]
<1>2. r2 \in SUBSET Words
    OBVIOUS
<1>3. [p EXCEPT !.reports = @ \cup {w}] = next
    <2>1. p.reports \cup {w} = r2
        OBVIOUS
    <2> HIDE DEF r2
    <2>2. [p EXCEPT !.reports = r2] = next
        <3>1. p = Made(pos, seen, rp, pb, q, rv)
            BY DEF Made
        <3>2. next = Made(pos, seen, r2, pb, q, rv)
            BY DEF Made
        <3> HIDE DEF next
        <3> QED BY <3>1, <3>2, ReportsChanged
    <2> QED BY <2>1, <2>2
<1> HIDE DEF r2
<1>4. next \in Progress /\ IsProgressOf(next) /\ DemoRest(next) = DemoRest(p)
    <2>1. next \in Progress /\ IsProgressOf(next)
        BY <1>1, <1>2, ProgressIs
    <2>2. DemoRest(next) = DemoRest(p)
        BY DEF DemoRest, IsComplete
    <2> QED BY <2>1, <2>2
<1>5. CASE IsComplete(p)
    BY <1>5 DEF RecordSelfReport
<1>6. CASE ~IsComplete(p) /\ ~c
    <2>1. RecordSelfReport(p, w, c) = next
        BY <1>3, <1>6 DEF RecordSelfReport
    <2> QED BY <1>4, <2>1
<1>7. CASE ~IsComplete(p) /\ c
    <2>1. RecordSelfReport(p, w, c) = Enqueue(next, pos)
        BY <1>3, <1>7 DEF RecordSelfReport
    <2>2. pos # Total + 1 /\ pos \in 1..seen
        BY <1>1, <1>7 DEF IsComplete, Placed
    <2>3. /\ Enqueue(next, pos) \in Progress /\ IsProgressOf(Enqueue(next, pos))
          /\ DemoRest(Enqueue(next, pos)) = DemoRest(next)
          /\ Enqueue(next, pos).position = pos
        <3>1. ~IsComplete(next) /\ next.seen = seen /\ next.position = pos
            BY <2>2 DEF IsComplete
        <3> HIDE DEF next
        <3> QED BY <1>4, <2>2, <3>1, EnqueueKeeps
    <2>4. p.position = pos
        OBVIOUS
    <2> HIDE DEF next
    <2> QED BY <1>4, <2>1, <2>3, <2>4
<1> QED BY <1>5, <1>6, <1>7

\* So does the answer to a probe, given before the end was shown.
LEMMA ProbeKeeps ==
    ASSUME NEW p \in Progress, IsProgressOf(p), ~IsComplete(p),
           NEW w \in Words, NEW c \in BOOLEAN
    PROVE  LET p2 == RecordProbeAnswer(p, w, c)
           IN /\ p2 \in Progress /\ IsProgressOf(p2)
              /\ DemoRest(p2) = DemoRest(p) /\ p2.position = p.position
<1> PICK pos \in Nat, seen \in Nat, rp \in SUBSET Words, pb \in SUBSET Ask,
        q \in Seq(Entry), rv \in Seq(Nat) :
        p = [position |-> pos, seen |-> seen, reports |-> rp, probed |-> pb,
             queue |-> q, reviewed |-> rv]
    BY DEF Progress, Ask, Entry
<1>1. Placed(pos, seen, q) /\ Asked(seen, pb) /\ Queued(seen, q, rv)
    BY ProgressIs
<1>2. pos # Total + 1 /\ pos \in 1..seen /\ seen \in 1..seen
    BY <1>1 DEF IsComplete, Placed
<1>3. CASE \E b \in p.probed : b.item = w
    BY <1>3 DEF RecordProbeAnswer
<1>4. CASE ~\E b \in p.probed : b.item = w
    <2> DEFINE b2 == pb \cup {[item |-> w, seen |-> seen]}
               next == [position |-> pos, seen |-> seen, reports |-> rp,
                        probed |-> b2, queue |-> q, reviewed |-> rv]
               having == {i \in 1..seen : w \in WordsOf[i]}
    <2>1. b2 \in SUBSET Ask
        BY DEF Ask
    <2>2. Asked(seen, b2)
        <3>1. \A b \in pb : b.item # w
            BY <1>4
        <3> QED BY <1>1, <1>2, <3>1 DEF Asked
    <2>3. [p EXCEPT !.probed = @ \cup {[item |-> w, seen |-> p.seen]}] = next
        <3>1. p.probed \cup {[item |-> w, seen |-> p.seen]} = b2
            OBVIOUS
        <3> HIDE DEF b2
        <3>2. [p EXCEPT !.probed = b2] = next
            <4>1. p = Made(pos, seen, rp, pb, q, rv)
                BY DEF Made
            <4>2. next = Made(pos, seen, rp, b2, q, rv)
                BY DEF Made
            <4> HIDE DEF next
            <4> QED BY <4>1, <4>2, ProbedChanged
        <3> QED BY <3>1, <3>2
    <2>4. RecordProbeAnswer(p, w, c) = IF c /\ having # {}
                                       THEN Enqueue(next, Max(having)) ELSE next
        BY <1>4, <2>3 DEF RecordProbeAnswer
    <2> HIDE DEF b2
    <2>5. next \in Progress /\ IsProgressOf(next) /\ DemoRest(next) = DemoRest(p)
        <3>1. next \in Progress /\ IsProgressOf(next)
            BY <1>1, <2>1, <2>2, ProgressIs
        <3>2. DemoRest(next) = DemoRest(p)
            BY DEF DemoRest, IsComplete
        <3> QED BY <3>1, <3>2
    <2>6. CASE c /\ having # {}
        <3>1. having \in SUBSET (0..seen)
            OBVIOUS
        <3>2. PICK k \in having : \A j \in having : k >= j
            BY <2>6, <3>1, GreatestExists
        <3> HIDE DEF having
        <3>3. Max(having) \in having
            BY <3>2 DEF Max
        <3>4. Max(having) \in 1..seen
            BY <3>3 DEF having
        <3> DEFINE p2 == Enqueue(next, Max(having))
        <3>5. /\ p2 \in Progress /\ IsProgressOf(p2)
              /\ DemoRest(p2) = DemoRest(next) /\ p2.position = pos
            <4>1. ~IsComplete(next) /\ next.seen = seen /\ next.position = pos
                BY <1>2 DEF IsComplete
            <4> HIDE DEF next
            <4> QED BY <2>5, <3>4, <4>1, EnqueueKeeps
        <3>6. p.position = pos
            OBVIOUS
        <3> HIDE DEF next
        <3> QED BY <2>4, <2>5, <2>6, <3>5, <3>6
    <2>7. CASE ~(c /\ having # {})
        BY <2>4, <2>5, <2>7
    <2> QED BY <2>6, <2>7
<1> QED BY <1>3, <1>4

\* A probe asks for a word of a sentence, and not at the end.
LEMMA PicksAreWords ==
    ASSUME NEW p \in Progress, IsProgressOf(p), NEW w \in ProbePicks(p),
           w # NoWord
    PROVE  w \in Words /\ ~IsComplete(p)
<1> DEFINE free == {i \in 1..(p.position - 1) :
                        \E v \in WordsOf[i] :
                            /\ v \notin p.reports
                            /\ \A b \in p.probed : b.item # v}
<1>1. /\ ~IsComplete(p) /\ free # {}
      /\ w \in WordsOf[Min(free)]
    BY DEF ProbePicks
<1>2. /\ p.position \in 1..p.seen /\ p.seen \in 0..Total /\ p.position \in Nat
    BY <1>1 DEF IsProgressOf, Progress
<1>3. free \subseteq 1..(p.position - 1)
    OBVIOUS
<1> HIDE DEF free
<1>4. free \in SUBSET Nat
    BY <1>2, <1>3
<1>5. PICK k \in free : \A j \in free : k <= j
    BY <1>1, <1>4, LeastExists
<1>6. Min(free) \in free
    BY <1>5 DEF Min
<1>7. Min(free) \in 1..Total
    BY <1>2, <1>3, <1>6, WordsAreSets
<1> QED BY <1>1, <1>7, WordsAreSets

\* The first sentence, or the end if there is none.
LEMMA InitialIsProgress ==
    InitialProgress \in Progress /\ IsProgressOf(InitialProgress)
<1> DEFINE s == IF Total = 0 THEN 0 ELSE 1
<1>1. InitialProgress = [position |-> 1, seen |-> s, reports |-> {},
                         probed |-> {}, queue |-> <<>>, reviewed |-> <<>>]
    BY DEF InitialProgress
<1>2. s \in Nat /\ Placed(1, s, <<>>)
    BY WordsAreSets DEF Placed
<1>3. Asked(s, {}) /\ Queued(s, <<>>, <<>>)
    BY DEF Asked, Queued
<1> HIDE DEF s
<1>4. /\ {} \in SUBSET Words /\ {} \in SUBSET Ask
      /\ <<>> \in Seq(Entry) /\ <<>> \in Seq(Nat) /\ 1 \in Nat
    OBVIOUS
<1> QED BY <1>1, <1>2, <1>3, <1>4, ProgressIs

\* What the demo shows and what the store keeps; what is shown was written, or
\* nothing was and the stored value is of no use.
DemoInv ==
    /\ demo \in [here : BOOLEAN, p : Progress, pick : Words \cup {NoWord},
                 judged : SUBSET Words]
    /\ demoSlot \in [memory : Progress \cup {Absent},
                     disk : Progress \cup {Absent, Foreign}, works : BOOLEAN]
    /\ IsProgressOf(demo.p)
    /\ demo.pick # NoWord => ~IsComplete(demo.p)
    /\ demoSlot.memory # Absent => IsProgressOf(demoSlot.memory)
    /\ demo.here => \/ demoSlot.memory = demo.p
                    \/ /\ demoSlot.memory = Absent
                       /\ demo.p = InitialProgress
                       /\ \/ demoSlot.disk = Absent
                          \/ ~IsProgressOf(demoSlot.disk)

\* Its parts, for values of the variables' fields.
DemoWell(h, p, k, j, m, d, w) ==
    /\ h \in BOOLEAN /\ p \in Progress /\ k \in Words \cup {NoWord}
    /\ j \in SUBSET Words
    /\ m \in Progress \cup {Absent}
    /\ d \in Progress \cup {Absent, Foreign}
    /\ w \in BOOLEAN
    /\ IsProgressOf(p)
    /\ k # NoWord => ~IsComplete(p)
    /\ m # Absent => IsProgressOf(m)
    /\ h => \/ m = p
            \/ /\ m = Absent /\ p = InitialProgress
               /\ d = Absent \/ ~IsProgressOf(d)

LEMMA DemoInvIs ==
    ASSUME NEW h, NEW p, NEW k, NEW j, NEW m, NEW d, NEW w,
           DemoWell(h, p, k, j, m, d, w)
    PROVE  /\ demo = [here |-> h, p |-> p, pick |-> k, judged |-> j] /\
              demoSlot = [memory |-> m, disk |-> d, works |-> w] => DemoInv
           /\ demo' = [here |-> h, p |-> p, pick |-> k, judged |-> j] /\
              demoSlot' = [memory |-> m, disk |-> d, works |-> w] => DemoInv'
BY DEF DemoWell, DemoInv

\* Every step of the demo keeps what is shown and what is stored together.
LEMMA DemoInvKept ==
    ASSUME DemoInv, DemoStep
    PROVE  DemoInv'
<1>1. PICK h \in BOOLEAN, p \in Progress, k \in Words \cup {NoWord},
           j \in SUBSET Words :
           demo = [here |-> h, p |-> p, pick |-> k, judged |-> j]
    BY DEF DemoInv
<1>2. PICK m \in Progress \cup {Absent}, d \in Progress \cup {Absent, Foreign},
           w \in BOOLEAN :
           demoSlot = [memory |-> m, disk |-> d, works |-> w]
    BY DEF DemoInv
<1>3. DemoWell(h, p, k, j, m, d, w)
    BY <1>1, <1>2 DEF DemoInv, DemoWell
<1>4. IsProgressOf(p) /\ (k # NoWord => ~IsComplete(p))
    BY <1>3 DEF DemoWell
<1>5. /\ InitialProgress \in Progress /\ IsProgressOf(InitialProgress)
      /\ Absent \notin Progress
      /\ ~IsProgressOf(Foreign)
    BY InitialIsProgress, DemoAssumption DEF IsProgressOf
<1>6. ASSUME NEW p2 \in Progress, IsProgressOf(p2), NEW d2,
             d2 = IF w THEN p2 ELSE d, NEW k2 \in Words \cup {NoWord},
             k2 # NoWord => ~IsComplete(p2), NEW j2 \in SUBSET Words
      PROVE  DemoWell(TRUE, p2, k2, j2, p2, d2, w)
    BY <1>6 DEF DemoWell
<1>7. ASSUME NEW p2, IsProgressOf(p2)
      PROVE  SlotWritten(demoSlot, p2, IsProgressOf(p2))
                 = [memory |-> p2, disk |-> IF w THEN p2 ELSE d, works |-> w]
    BY <1>2, <1>7 DEF SlotWritten
<1>8. CASE DemoOpens
    <2> DEFINE s == SlotValue(demoSlot, IsProgressOf(demoSlot.disk))
               p2 == IF s = Absent THEN InitialProgress ELSE s
    <2>1. s \in Progress \cup {Absent} /\ (s # Absent => IsProgressOf(s))
        BY <1>2, <1>3, <1>5 DEF SlotValue, DemoWell
    <2>2. s = Absent => m = Absent /\ (d = Absent \/ ~IsProgressOf(d))
        BY <1>2, <1>3, <1>5 DEF SlotValue, DemoWell
    <2>3. demoSlot' = [memory |-> s, disk |-> d, works |-> w]
        BY <1>2, <1>8 DEF DemoOpens, SlotRead
    <2>4. PICK k2 \in ProbePicks(p2) :
              demo' = [here |-> TRUE, p |-> p2, pick |-> k2, judged |-> {}]
        BY <1>8 DEF DemoOpens, Draws
    <2> HIDE DEF s
    <2>5. p2 \in Progress /\ IsProgressOf(p2)
        BY <1>5, <2>1
    <2> HIDE DEF p2
    <2>6. /\ k2 \in Words \cup {NoWord}
          /\ k2 # NoWord => ~IsComplete(p2)
        BY <2>5, PicksAreWords
    <2>7. \/ s = p2
          \/ s = Absent /\ p2 = InitialProgress
        BY DEF p2
    <2>8. DemoWell(TRUE, p2, k2, {}, s, d, w)
        BY <2>1, <2>2, <2>5, <2>6, <2>7 DEF DemoWell
    <2> QED BY <2>3, <2>4, <2>8, DemoInvIs
<1>9. CASE DemoLeaves
    <2>1. demo' = [here |-> FALSE, p |-> InitialProgress, pick |-> NoWord,
                   judged |-> {}]
        BY <1>9 DEF DemoLeaves, Away
    <2>2. PICK m2 \in {m, Absent} :
              demoSlot' = [memory |-> m2, disk |-> d, works |-> w]
        <3>1. \/ demoSlot' = [memory |-> m, disk |-> d, works |-> w]
              \/ demoSlot' = [memory |-> Absent, disk |-> d, works |-> w]
            BY <1>2, <1>9 DEF DemoLeaves, SlotReloaded
        <3> QED BY <3>1
    <2>3. DemoWell(FALSE, InitialProgress, NoWord, {}, m2, d, w)
        BY <1>3, <1>5 DEF DemoWell
    <2> QED BY <2>1, <2>2, <2>3, DemoInvIs
<1>10. CASE DemoNext
    <2> DEFINE p2 == Advance(p)
               d2 == IF w THEN p2 ELSE d
    <2>1. p2 \in Progress /\ IsProgressOf(p2)
        BY <1>1, <1>4, <1>10, AdvanceKeeps DEF DemoNext
    <2>2. PICK k2 \in ProbePicks(p2) :
              demo' = [here |-> TRUE, p |-> p2, pick |-> k2, judged |-> {}]
        BY <1>1, <1>10 DEF DemoNext, Draws
    <2>3. demoSlot' = SlotWritten(demoSlot, p2, IsProgressOf(p2))
        BY <1>1, <1>10 DEF DemoNext
    <2> HIDE DEF p2
    <2>4. demoSlot' = [memory |-> p2, disk |-> d2, works |-> w]
        BY <1>7, <2>1, <2>3
    <2>5. /\ k2 \in Words \cup {NoWord}
          /\ k2 # NoWord => ~IsComplete(p2)
        BY <2>1, PicksAreWords
    <2>6. DemoWell(TRUE, p2, k2, {}, p2, d2, w)
        BY <1>6, <2>1, <2>5
    <2> QED BY <2>2, <2>4, <2>6, DemoInvIs
<1>11. CASE DemoReports
    <2>1. PICK v \in WordsOf[p.position] \ j, c \in BOOLEAN :
              LET next == RecordSelfReport(p, v, c)
              IN /\ demo' = [demo EXCEPT !.p = next, !.judged = @ \cup {v}]
                 /\ demoSlot' = SlotWritten(demoSlot, next, IsProgressOf(next))
        BY <1>1, <1>11 DEF DemoReports
    <2> DEFINE p2 == RecordSelfReport(p, v, c)
               d2 == IF w THEN p2 ELSE d
               j2 == j \cup {v}
    <2>2. v \in Words
        <3>1. ~IsComplete(p)
            BY <1>1, <1>11 DEF DemoReports
        <3>2. p.position \in 1..p.seen /\ p.seen \in 0..Total
            BY <1>4, <3>1 DEF IsProgressOf
        <3> QED BY <2>1, <3>2, WordsAreSets
    <2>3. /\ p2 \in Progress /\ IsProgressOf(p2)
          /\ p2.position = p.position
        BY <1>4, <2>2, ReportKeeps
    <2>4. demo' = [here |-> h, p |-> p2, pick |-> k, judged |-> j2]
        BY <1>1, <2>1
    <2>5. demoSlot' = SlotWritten(demoSlot, p2, IsProgressOf(p2)) /\ h = TRUE
        BY <1>1, <1>11, <2>1 DEF DemoReports
    <2> HIDE DEF p2
    <2>6. demoSlot' = [memory |-> p2, disk |-> d2, works |-> w]
        BY <1>7, <2>3, <2>5
    <2>7. k # NoWord => ~IsComplete(p2)
        BY <1>4, <2>3 DEF IsComplete
    <2>8. DemoWell(TRUE, p2, k, j2, p2, d2, w)
        BY <1>6, <2>2, <2>3, <2>7
    <2> QED BY <2>4, <2>5, <2>6, <2>8, DemoInvIs
<1>12. CASE DemoAnswersProbe
    <2>1. PICK c \in BOOLEAN :
              LET next == RecordProbeAnswer(p, k, c)
              IN /\ demo' = [demo EXCEPT !.p = next, !.pick = NoWord]
                 /\ demoSlot' = SlotWritten(demoSlot, next, IsProgressOf(next))
        BY <1>1, <1>12 DEF DemoAnswersProbe
    <2> DEFINE p2 == RecordProbeAnswer(p, k, c)
               d2 == IF w THEN p2 ELSE d
    <2>2. h = TRUE /\ k # NoWord
        BY <1>1, <1>12 DEF DemoAnswersProbe
    <2>3. p2 \in Progress /\ IsProgressOf(p2)
        BY <1>4, <2>2, ProbeKeeps
    <2>4. demo' = [here |-> h, p |-> p2, pick |-> NoWord, judged |-> j]
        BY <1>1, <2>1
    <2>5. demoSlot' = SlotWritten(demoSlot, p2, IsProgressOf(p2))
        BY <2>1
    <2> HIDE DEF p2
    <2>6. demoSlot' = [memory |-> p2, disk |-> d2, works |-> w]
        BY <1>7, <2>3, <2>5
    <2>7. DemoWell(TRUE, p2, NoWord, j, p2, d2, w)
        BY <1>6, <2>3
    <2> QED BY <2>2, <2>4, <2>6, <2>7, DemoInvIs
<1>13. CASE DemoStartsOver
    <2>1. PICK k2 \in ProbePicks(InitialProgress) :
              demo' = [here |-> TRUE, p |-> InitialProgress, pick |-> k2,
                       judged |-> {}]
        BY <1>13 DEF DemoStartsOver, Draws
    <2>2. demoSlot' = [memory |-> Absent, disk |-> Absent, works |-> w]
        BY <1>2, <1>13 DEF DemoStartsOver, SlotRemoved
    <2>3. /\ k2 \in Words \cup {NoWord}
          /\ k2 # NoWord => ~IsComplete(InitialProgress)
        BY <1>5, PicksAreWords
    <2>4. DemoWell(TRUE, InitialProgress, k2, {}, Absent, Absent, w)
        BY <1>5, <2>3 DEF DemoWell
    <2> QED BY <2>1, <2>2, <2>4, DemoInvIs
<1> QED BY <1>8, <1>9, <1>10, <1>11, <1>12, <1>13 DEF DemoStep

\* The invariant holds from the start and through every step.
LEMMA DemoInvAlways == DemoInit /\ [][DemoStep]_demoVars => []DemoInv
<1>1. DemoInit => DemoInv
    <2> SUFFICES ASSUME DemoInit PROVE DemoInv
        OBVIOUS
    <2>1. demo = [here |-> FALSE, p |-> InitialProgress, pick |-> NoWord,
                  judged |-> {}]
        BY DEF DemoInit, Away
    <2>2. PICK d \in {Absent, Foreign}, w \in BOOLEAN :
              demoSlot = [memory |-> Absent, disk |-> d, works |-> w]
        BY DEF DemoInit, EmptySlots
    <2>3. DemoWell(FALSE, InitialProgress, NoWord, {}, Absent, d, w)
        BY InitialIsProgress DEF DemoWell
    <2> QED BY <2>1, <2>2, <2>3, DemoInvIs
<1>2. DemoInv /\ [DemoStep]_demoVars => DemoInv'
    <2>1. DemoInv /\ UNCHANGED demoVars => DemoInv'
        BY DEF DemoInv, demoVars
    <2> QED BY <2>1, DemoInvKept
<1> QED BY <1>1, <1>2, PTL

\* What was done in the demo is there when one comes back, with any fixture
\* and whatever the storage does (isProgressOf, readDemoProgress).
THEOREM DemoComesBack ==
    DemoInit /\ [][DemoStep]_demoVars => []DemoIsKept
<1>1. DemoInv => DemoIsKept
    <2> SUFFICES ASSUME DemoInv, demo.here PROVE DemoIsKept
        BY DEF DemoIsKept
    <2>1. demo.p \in Progress /\ Absent \notin Progress
        BY DemoAssumption DEF DemoInv
    <2> QED BY <2>1 DEF DemoInv, DemoIsKept, SlotValue
<1> QED BY <1>1, DemoInvAlways, PTL

\* What is left to show is a number: no sentence is shown for a third time.
LEMMA RestIsNumber ==
    ASSUME NEW p \in Progress, IsProgressOf(p)
    PROVE  DemoRest(p) \in Nat
<1>1. /\ p.seen \in 0..Total /\ p.reviewed \in Seq(Nat) /\ Total \in Nat
      /\ \A i \in DOMAIN p.reviewed : p.reviewed[i] \in 1..p.seen
      /\ IsInjective(p.reviewed)
    BY WordsAreSets DEF IsProgressOf, Progress
<1> DEFINE n == Len(p.reviewed)
<1>2. n \in Nat /\ DOMAIN p.reviewed = 1..n
    BY <1>1
<1>3. p.reviewed \in Injection(1..n, 1..p.seen)
    BY <1>1, <1>2 DEF Injection
<1>4. /\ IsFiniteSet(1..p.seen) /\ Cardinality(1..p.seen) = p.seen
      /\ Cardinality(1..n) = n
    <2>1. \A a \in Nat : IsFiniteSet(1..a) /\ Cardinality(1..a) = a
        BY FS_Interval
    <2> QED BY <1>1, <1>2, <2>1
<1>5. n <= p.seen
    BY <1>3, <1>4, FS_Injection
<1> QED BY <1>1, <1>2, <1>5 DEF DemoRest

\* "Next" leads to the end of any fixture: what is left is a number that every
\* "next" makes smaller and nothing in between makes larger (advance, enqueue).
THEOREM DemoEnds ==
    DemoInit /\ [][DemoStep]_demoVars
        => DemoMovesOn /\ [](DemoRest(demo.p) \in Nat)
<1>1. ASSUME DemoInv, [DemoStep]_demoVars
      PROVE  [/\ DemoNext => DemoRest(demo'.p) < DemoRest(demo.p)
              /\ DemoReports \/ DemoAnswersProbe =>
                     DemoRest(demo'.p) = DemoRest(demo.p)]_demoVars
    <2>1. demo.p \in Progress /\ IsProgressOf(demo.p)
        BY <1>1 DEF DemoInv
    <2>2. ASSUME DemoNext
          PROVE  DemoRest(demo'.p) < DemoRest(demo.p)
        <3>1. demo'.p = Advance(demo.p) /\ ~IsComplete(demo.p)
            BY <2>2 DEF DemoNext, Draws
        <3>2. DemoRest(Advance(demo.p)) < DemoRest(demo.p)
            BY <2>1, <3>1, AdvanceKeeps
        <3> QED BY <3>1, <3>2
    <2>3. ASSUME DemoReports
          PROVE  DemoRest(demo'.p) = DemoRest(demo.p)
        <3>1. PICK v \in WordsOf[demo.p.position], c \in BOOLEAN :
                  demo' = [demo EXCEPT !.p = RecordSelfReport(demo.p, v, c),
                                       !.judged = @ \cup {v}]
            BY <2>3 DEF DemoReports
        <3>2. v \in Words
            <4>1. ~IsComplete(demo.p)
                BY <2>3 DEF DemoReports
            <4>2. demo.p.position \in 1..demo.p.seen /\ demo.p.seen \in 0..Total
                BY <2>1, <4>1 DEF IsProgressOf
            <4> QED BY <4>2, WordsAreSets
        <3>3. demo'.p = RecordSelfReport(demo.p, v, c)
            BY <1>1, <3>1 DEF DemoInv
        <3> QED BY <2>1, <3>2, <3>3, ReportKeeps
    <2>4. ASSUME DemoAnswersProbe
          PROVE  DemoRest(demo'.p) = DemoRest(demo.p)
        <3>1. PICK c \in BOOLEAN :
                  demo' = [demo EXCEPT
                               !.p = RecordProbeAnswer(demo.p, demo.pick, c),
                               !.pick = NoWord]
            BY <2>4 DEF DemoAnswersProbe
        <3>2. demo.pick \in Words /\ ~IsComplete(demo.p)
            BY <1>1, <2>4 DEF DemoAnswersProbe, DemoInv
        <3>3. demo'.p = RecordProbeAnswer(demo.p, demo.pick, c)
            BY <1>1, <3>1 DEF DemoInv
        <3> QED BY <2>1, <3>2, <3>3, ProbeKeeps
    <2> QED BY <2>2, <2>3, <2>4
<1>2. DemoInv => DemoRest(demo.p) \in Nat
    BY RestIsNumber DEF DemoInv
<1> QED BY <1>1, <1>2, DemoInvAlways, PTL DEF DemoMovesOn
=============================================================================
