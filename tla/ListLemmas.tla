----------------------------- MODULE ListLemmas -----------------------------
(***************************************************************************)
(* What Filtered, Sorted, Least and Greatest return, for any sequence and  *)
(* any finite set. The induction that recursive functions need is stated   *)
(* for sets, not for operators, so that it can be cited; see Recursion.    *)
(***************************************************************************)
EXTENDS Lists, FiniteSetTheorems, SequenceTheorems, WellFoundedInduction, TLAPS

\* Induction: what holds of 0 and goes from n to n + 1 holds of every number.
LEMMA NatSet ==
  ASSUME NEW S, 0 \in S, \A n \in Nat : n \in S => n + 1 \in S
  PROVE  Nat \subseteq S
<1> DEFINE Bad == Nat \ S
           R == {ss \in Nat \X Nat : ss[1] < ss[2]}
<1>1. IsWellFoundedOn(R, Nat)
  BY NatLessThanWellFounded DEF OpToRel
<1>2. SUFFICES ASSUME Bad # {} PROVE FALSE
  OBVIOUS
<1>3. PICK x \in Bad : \A y \in Bad : ~ (<<y, x>> \in R)
  <2> HIDE DEF Bad, R
  <2>1. Bad \subseteq Nat BY DEF Bad
  <2> QED BY <1>1, <1>2, <2>1, WFMin
<1>4. x # 0 OBVIOUS
<1>5. x - 1 \in Nat /\ x = (x - 1) + 1 /\ x - 1 < x
  BY <1>4
<1>6. x - 1 \in Bad
  BY <1>5
<1>7. <<x - 1, x>> \in R
  BY <1>5
<1> QED BY <1>3, <1>6, <1>7

\* f is defined by recursion from b, with g[n] for the n-th step.
Recursive(f, N, b, g) ==
  f = [n \in 0..N |-> IF n = 0 THEN b ELSE g[n][f[n - 1]]]

\* A step function from D to D for every number defines a function by recursion.
LEMMA Recursion ==
  ASSUME NEW D, NEW N \in Nat, NEW b \in D, NEW g \in [1..N -> [D -> D]]
  PROVE  \E f \in [0..N -> D] : Recursive(f, N, b, g)
<1> DEFINE Upto(m, f) == /\ f[0] = b
                         /\ \A n \in 1..m : f[n] = g[n][f[n - 1]]
           S == {m \in Nat : m <= N => \E f \in [0..m -> D] : Upto(m, f)}
<1>1. 0 \in S
  <2>1. Upto(0, [n \in 0..0 |-> b]) OBVIOUS
  <2>2. [n \in 0..0 |-> b] \in [0..0 -> D] OBVIOUS
  <2> QED BY <2>1, <2>2
<1>2. ASSUME NEW m \in Nat, m \in S
      PROVE  m + 1 \in S
  <2>1. SUFFICES ASSUME m + 1 <= N
                 PROVE  \E f \in [0..(m + 1) -> D] : Upto(m + 1, f)
    OBVIOUS
  <2>2. PICK f \in [0..m -> D] : Upto(m, f)
    BY <1>2, <2>1
  <2> DEFINE h == [n \in 0..(m + 1) |-> IF n = m + 1 THEN g[m + 1][f[m]]
                                        ELSE f[n]]
  <2>3. g[m + 1] \in [D -> D] /\ f[m] \in D
    BY <2>1
  <2>4. h \in [0..(m + 1) -> D]
    BY <2>3
  <2>5. h[0] = b
    BY <2>2
  <2>6. ASSUME NEW n \in 1..(m + 1)
        PROVE  h[n] = g[n][h[n - 1]]
    <3>1. CASE n = m + 1
      BY <3>1
    <3>2. CASE n # m + 1
      <4>1. n \in 1..m /\ n - 1 \in 0..m /\ n - 1 # m + 1
        BY <3>2
      <4> QED BY <4>1, <2>2
    <3> QED BY <3>1, <3>2
  <2> HIDE DEF h
  <2> QED BY <2>4, <2>5, <2>6
<1>3. N \in S
  <2> HIDE DEF S
  <2> QED BY <1>1, <1>2, NatSet
<1>4. PICK f \in [0..N -> D] : Upto(N, f)
  BY <1>3
<1>5. \A n \in 0..N : f[n] = IF n = 0 THEN b ELSE g[n][f[n - 1]]
  BY <1>4
<1>6. f = [n \in 0..N |-> IF n = 0 THEN b ELSE g[n][f[n - 1]]]
  BY <1>5
<1> QED BY <1>6 DEF Recursive

\* What starts in D and stays in D from one value to the next is always in D.
LEMMA RecursionStays ==
  ASSUME NEW D, NEW N \in Nat, NEW f, f[0] \in D,
         \A n \in 1..N : f[n - 1] \in D => f[n] \in D
  PROVE  \A n \in 0..N : f[n] \in D
<1> DEFINE S == {n \in Nat : n <= N => f[n] \in D}
<1>1. 0 \in S OBVIOUS
<1>2. ASSUME NEW n \in Nat, n \in S PROVE n + 1 \in S
  <2>1. SUFFICES ASSUME n + 1 <= N PROVE f[n + 1] \in D
    OBVIOUS
  <2>2. n + 1 \in 1..N /\ (n + 1) - 1 = n BY <2>1
  <2>3. f[n] \in D BY <1>2, <2>1
  <2> QED BY <2>2, <2>3
<1>3. Nat \subseteq S
  <2> HIDE DEF S
  <2> QED BY <1>1, <1>2, NatSet
<1> QED BY <1>3

\* f[n] is what is kept of the first n elements.
Filtering(f, q, keep) ==
  /\ Filtered(q, keep) = f[Len(q)]
  /\ f[0] = <<>>
  /\ \A n \in 1..Len(q) : f[n] = IF q[n] \in keep THEN Append(f[n - 1], q[n])
                                ELSE f[n - 1]

\* The function that Filtered is defined by exists.
LEMMA FilteredStep ==
  ASSUME NEW D, NEW q \in Seq(D), NEW keep
  PROVE  \E f \in [0..Len(q) -> Seq(D)] : Filtering(f, q, keep)
<1> DEFINE N == Len(q)
           E == Seq(D)
           More(n, s) == IF q[n] \in keep THEN Append(s, q[n]) ELSE s
           Is(f) == f = [n \in 0..N |-> IF n = 0 THEN <<>> ELSE More(n, f[n - 1])]
           F == CHOOSE f : Is(f)
           g == [n \in 1..N |-> [s \in E |-> More(n, s)]]
<1>1. N \in Nat /\ <<>> \in E
  OBVIOUS
<1>2. \A n \in 1..N, s \in E : More(n, s) \in E
  OBVIOUS
<1>3. Filtered(q, keep) = F[N]
  BY DEF Filtered
<1> HIDE DEF N, E, More
<1>4. g \in [1..N -> [E -> E]]
  BY <1>2
<1>5. \A n \in 1..N, s \in E : g[n][s] = More(n, s)
  OBVIOUS
<1> HIDE DEF g
<1>6. PICK f \in [0..N -> E] : Recursive(f, N, <<>>, g)
  BY <1>1, <1>4, Recursion
<1>7. \A n \in 0..N : n # 0 => n \in 1..N /\ n - 1 \in 0..N
  BY <1>1
<1>8. \A n \in 0..N : f[n] = IF n = 0 THEN <<>> ELSE More(n, f[n - 1])
  <2> TAKE n \in 0..N
  <2>1. CASE n = 0 BY <1>6, <2>1 DEF Recursive
  <2>2. CASE n # 0
    <3>1. f[n - 1] \in E /\ n \in 1..N BY <1>7, <2>2
    <3>2. f[n] = g[n][f[n - 1]] BY <1>6, <2>2 DEF Recursive
    <3> QED BY <1>5, <2>2, <3>1, <3>2
  <2> QED BY <2>1, <2>2
<1>9. Is(f)
  BY <1>8
<1> HIDE DEF Is
<1>10. Is(F)
  BY <1>9
<1> HIDE DEF F
<1>11. /\ F = [n \in 0..N |-> F[n]]
       /\ \A n \in 0..N : F[n] = IF n = 0 THEN <<>> ELSE More(n, F[n - 1])
  BY <1>10 DEF Is
<1>12. F[0] = <<>> /\ \A n \in 1..N : F[n] = More(n, F[n - 1])
  <2>1. 0 \in 0..N /\ \A n \in 1..N : n \in 0..N /\ n # 0 BY <1>1
  <2> QED BY <1>11, <2>1
<1>13. \A n \in 1..N : F[n - 1] \in E => F[n] \in E
  BY <1>2, <1>12
<1>14. \A n \in 0..N : F[n] \in E
  BY <1>1, <1>12, <1>13, RecursionStays
<1>15. F \in [0..N -> E]
  BY <1>11, <1>14
<1> QED BY <1>3, <1>12, <1>15 DEF N, E, More, Filtering

\* Where the elements come from.
Picked(q, keep, s, n) ==
  \E h \in [1..Len(s) -> 1..n] :
    /\ \A k \in 1..Len(s) : q[h[k]] \in keep /\ s[k] = q[h[k]]
    /\ \A k, l \in 1..Len(s) : k < l => h[k] < h[l]
    /\ \A m \in 1..n : q[m] \in keep => \E k \in 1..Len(s) : h[k] = m

\* Filtered picks positions in their order, and is a sequence.
LEMMA FilteredPicks ==
  ASSUME NEW D, NEW q \in Seq(D), NEW keep
  PROVE  /\ Filtered(q, keep) \in Seq(D)
         /\ Picked(q, keep, Filtered(q, keep), Len(q))
<1>1. PICK f \in [0..Len(q) -> Seq(D)] : Filtering(f, q, keep)
  BY FilteredStep
<1> DEFINE S == {n \in Nat : n <= Len(q) => Picked(q, keep, f[n], n)}
<1>2. 0 \in S
  <2>1. Picked(q, keep, <<>>, 0)
    <3> DEFINE h == [k \in 1..0 |-> 0]
    <3>1. h \in [1..Len(<<>>) -> 1..0] OBVIOUS
    <3> QED BY <3>1 DEF Picked
  <2> QED BY <1>1, <2>1 DEF Filtering
<1>3. ASSUME NEW n \in Nat, n \in S PROVE n + 1 \in S
  <2>1. SUFFICES ASSUME n + 1 <= Len(q)
                 PROVE  Picked(q, keep, f[n + 1], n + 1)
    OBVIOUS
  <2>2. Len(q) \in Nat OBVIOUS
  <2>3. n \in 0..Len(q) /\ n + 1 \in 1..Len(q) /\ (n + 1) - 1 = n
    BY <2>1, <2>2
  <2> DEFINE s == f[n]
  <2>4. s \in Seq(D) /\ q[n + 1] \in D
    BY <2>3
  <2>5. f[n + 1] = IF q[n + 1] \in keep THEN Append(s, q[n + 1]) ELSE s
    BY <1>1, <2>3 DEF Filtering
  <2>6. Picked(q, keep, s, n)
    BY <1>3, <2>1
  <2>7. PICK h \in [1..Len(s) -> 1..n] :
          /\ \A k \in 1..Len(s) : q[h[k]] \in keep /\ s[k] = q[h[k]]
          /\ \A k, l \in 1..Len(s) : k < l => h[k] < h[l]
          /\ \A m \in 1..n : q[m] \in keep => \E k \in 1..Len(s) : h[k] = m
    BY <2>6 DEF Picked
  <2> HIDE DEF s
  <2>8. CASE q[n + 1] \notin keep
    <3>1. f[n + 1] = s BY <2>5, <2>8
    <3>2. h \in [1..Len(s) -> 1..(n + 1)] BY <2>4
    <3>3. \A m \in 1..(n + 1) : q[m] \in keep => m \in 1..n BY <2>8
    <3> QED BY <2>7, <3>1, <3>2, <3>3 DEF Picked
  <2>9. CASE q[n + 1] \in keep
    <3> DEFINE t == Append(s, q[n + 1])
               i == [k \in 1..Len(t) |-> IF k = Len(s) + 1 THEN n + 1 ELSE h[k]]
    <3>1. /\ Len(s) \in Nat /\ Len(t) = Len(s) + 1
          /\ t[Len(s) + 1] = q[n + 1]
          /\ \A k \in 1..Len(s) : t[k] = s[k]
      BY <2>4
    <3>2. f[n + 1] = t BY <2>5, <2>9
    <3> HIDE DEF t
    <3>3. \A k \in 1..Len(t) : k # Len(s) + 1 => k \in 1..Len(s) BY <3>1
    <3>4. i \in [1..Len(t) -> 1..(n + 1)] BY <3>1, <3>3
    <3>5. \A k \in 1..Len(t) : q[i[k]] \in keep /\ t[k] = q[i[k]]
      BY <2>7, <2>9, <3>1, <3>3
    <3>6. \A k, l \in 1..Len(t) : k < l => i[k] < i[l]
      <4>1. SUFFICES ASSUME NEW k \in 1..Len(t), NEW l \in 1..Len(t), k < l
                     PROVE  i[k] < i[l]
        OBVIOUS
      <4>2. k # Len(s) + 1
        BY <3>1, <4>1
      <4>5. k \in 1..Len(s) /\ h[k] \in 1..n
        BY <3>3, <4>2
      <4>3. CASE l = Len(s) + 1
        BY <4>2, <4>3, <4>5
      <4>4. CASE l # Len(s) + 1
        <5>1. l \in 1..Len(s) BY <3>3, <4>4
        <5> QED BY <2>7, <4>1, <4>2, <4>4, <4>5, <5>1
      <4> QED BY <4>3, <4>4
    <3>7. \A m \in 1..(n + 1) : q[m] \in keep => \E k \in 1..Len(t) : i[k] = m
      <4> TAKE m \in 1..(n + 1)
      <4>1. CASE m = n + 1
        BY <3>1, <4>1
      <4>2. CASE m # n + 1
        <5>1. m \in 1..n BY <4>2
        <5> HAVE q[m] \in keep
        <5>2. PICK k \in 1..Len(s) : h[k] = m BY <2>7, <5>1
        <5>3. k \in 1..Len(t) /\ k # Len(s) + 1 BY <3>1
        <5> QED BY <5>2, <5>3
      <4> QED BY <4>1, <4>2
    <3> HIDE DEF i
    <3> QED BY <3>2, <3>4, <3>5, <3>6, <3>7 DEF Picked
  <2> QED BY <2>8, <2>9
<1>4. Nat \subseteq S
  <2> HIDE DEF S
  <2> QED BY <1>2, <1>3, NatSet
<1>5. Len(q) \in Nat /\ f[Len(q)] \in Seq(D) OBVIOUS
<1> QED BY <1>1, <1>4, <1>5 DEF Filtering

\* What Filtered keeps comes from the sequence and is in the set.
LEMMA FilteredKeeps ==
  ASSUME NEW D, NEW q \in Seq(D), NEW keep
  PROVE  Filtered(q, keep) \in Seq(D \cap keep)
<1> DEFINE s == Filtered(q, keep)
<1>1. s \in Seq(D) /\ Picked(q, keep, s, Len(q))
  BY FilteredPicks
<1> HIDE DEF s
<1>2. \A k \in 1..Len(s) : s[k] \in D \cap keep
  BY <1>1 DEF Picked
<1>3. s = [k \in 1..Len(s) |-> s[k]] /\ Len(s) \in Nat
  BY <1>1
<1>4. s \in Seq(D \cap keep) BY <1>2, <1>3
<1> QED BY <1>4 DEF s

\* A set of numbers that is not empty has a least element.
LEMMA LeastExists ==
  ASSUME NEW S \in SUBSET Nat, S # {}
  PROVE  Least(S) \in S /\ \A y \in S : Least(S) <= y
<1> DEFINE R == {ss \in Nat \X Nat : ss[1] < ss[2]}
<1>1. IsWellFoundedOn(R, Nat)
  BY NatLessThanWellFounded DEF OpToRel
<1>2. PICK x \in S : \A y \in S : ~ (<<y, x>> \in R)
  <2> HIDE DEF R
  <2> QED BY <1>1, WFMin
<1>3. \A y \in S : x <= y
  <2> TAKE y \in S
  <2>1. x \in Nat /\ y \in Nat OBVIOUS
  <2>2. ~(y < x) BY <1>2, <2>1
  <2> QED BY <2>1, <2>2
<1> QED BY <1>3 DEF Least

\* A set of numbers below a bound that is not empty has a greatest element.
LEMMA GreatestExists ==
  ASSUME NEW N \in Nat, NEW S \in SUBSET (0..N), S # {}
  PROVE  Greatest(S) \in S /\ \A y \in S : Greatest(S) >= y
<1> DEFINE T == {N - x : x \in S}
<1>1. T \in SUBSET Nat /\ T # {}
  <2>1. \A x \in S : N - x \in Nat OBVIOUS
  <2>2. \A y \in T : y \in Nat BY <2>1
  <2> QED BY <2>2
<1>2. PICK x \in S : Least(T) = N - x
  BY <1>1, LeastExists
<1>3. \A y \in S : N - y \in T
  OBVIOUS
<1>4. \A y \in S : N - x <= N - y
  <2> HIDE DEF T
  <2> QED BY <1>1, <1>2, <1>3, LeastExists
<1>5. \A y \in S : x >= y
  BY <1>4
<1> QED BY <1>5 DEF Greatest

\* A strict total order on S.
Orders(R, S) ==
  /\ \A x, y \in S : x = y \/ <<x, y>> \in R \/ <<y, x>> \in R
  /\ \A x, y, z \in S : <<x, y>> \in R /\ <<y, z>> \in R => <<x, z>> \in R

\* A finite set has a first element in a strict order of it.
LEMMA FirstExists ==
  ASSUME NEW S, IsFiniteSet(S), S # {}, NEW R, Orders(R, S)
  PROVE  \E x \in S : \A y \in S : x = y \/ <<x, y>> \in R
<1> DEFINE Has(T) == \E x \in T : \A y \in T : x = y \/ <<x, y>> \in R
           N == {n \in Nat : \A T \in SUBSET S :
                    T # {} /\ Cardinality(T) = n => Has(T)}
<1>1. 0 \in N
  <2>1. \A T \in SUBSET S : IsFiniteSet(T) BY FS_Subset
  <2>2. \A T \in SUBSET S : Cardinality(T) = 0 => T = {}
    BY <2>1, FS_EmptySet
  <2> QED BY <2>2
<1>2. ASSUME NEW n \in Nat, n \in N PROVE n + 1 \in N
  <2>1. SUFFICES ASSUME NEW T \in SUBSET S, T # {}, Cardinality(T) = n + 1
                 PROVE  Has(T)
    OBVIOUS
  <2>2. PICK t \in T : TRUE BY <2>1
  <2>3. IsFiniteSet(T) BY FS_Subset
  <2>4. Cardinality(T \ {t}) = n
    BY <2>1, <2>3, FS_RemoveElement
  <2>5. CASE T \ {t} = {}
    BY <2>2, <2>5
  <2>6. CASE T \ {t} # {}
    <3>1. T \ {t} \in SUBSET S OBVIOUS
    <3>2. Has(T \ {t}) BY <1>2, <2>4, <2>6, <3>1
    <3>3. PICK x \in T \ {t} : \A y \in T \ {t} : x = y \/ <<x, y>> \in R
      BY <3>2
    <3>4. CASE <<x, t>> \in R
      BY <3>3, <3>4
    <3>5. CASE <<t, x>> \in R
      <4>1. \A y \in T : t = y \/ <<t, y>> \in R
        BY <3>3, <3>5 DEF Orders
      <4> QED BY <4>1
    <3> QED BY <3>4, <3>5 DEF Orders
  <2> QED BY <2>5, <2>6
<1>3. Nat \subseteq N
  <2> HIDE DEF N
  <2> QED BY <1>1, <1>2, NatSet
<1>4. Cardinality(S) \in Nat BY FS_CardinalityType
<1> QED BY <1>3, <1>4

\* A finite set has a last element in a strict order of it.
LEMMA LastExists ==
  ASSUME NEW S, IsFiniteSet(S), S # {}, NEW R, Orders(R, S)
  PROVE  \E x \in S : \A y \in S : x = y \/ <<y, x>> \in R
<1> DEFINE Q == {p \in S \X S : <<p[2], p[1]>> \in R}
<1>1. \A x, y \in S : <<x, y>> \in Q <=> <<y, x>> \in R
  OBVIOUS
<1> HIDE DEF Q
<1>2. Orders(Q, S)
  BY <1>1 DEF Orders
<1>3. PICK x \in S : \A y \in S : x = y \/ <<x, y>> \in Q
  BY <1>2, FirstExists
<1> QED BY <1>1, <1>3

InOrder(q, R) == \A m, n \in DOMAIN q : m < n => <<q[m], q[n]>> \in R

\* A finite set can be listed in a strict order of it.
LEMMA SortedExists ==
  ASSUME NEW S, IsFiniteSet(S), NEW R, Orders(R, S)
  PROVE  \E q \in [1..Cardinality(S) -> S] : InOrder(q, R)
<1> DEFINE Has(T) == \E q \in [1..Cardinality(T) -> T] : InOrder(q, R)
           N == {n \in Nat : \A T \in SUBSET S : Cardinality(T) = n => Has(T)}
<1>1. 0 \in N
  <2>1. SUFFICES ASSUME NEW T \in SUBSET S, Cardinality(T) = 0 PROVE Has(T)
    OBVIOUS
  <2> DEFINE q == [k \in 1..0 |-> CHOOSE x \in T : TRUE]
  <2>2. q \in [1..Cardinality(T) -> T] /\ DOMAIN q = {}
    BY <2>1
  <2> QED BY <2>2 DEF InOrder
<1>2. ASSUME NEW n \in Nat, n \in N PROVE n + 1 \in N
  <2>1. SUFFICES ASSUME NEW T \in SUBSET S, Cardinality(T) = n + 1
                 PROVE  Has(T)
    OBVIOUS
  <2>2. IsFiniteSet(T) BY FS_Subset
  <2>3. T # {} BY <2>1, FS_EmptySet
  <2>4. Orders(R, T) BY DEF Orders
  <2>5. PICK t \in T : \A y \in T : t = y \/ <<y, t>> \in R
    BY <2>2, <2>3, <2>4, LastExists
  <2>6. Cardinality(T \ {t}) = n /\ T \ {t} \in SUBSET S
    BY <2>1, <2>2, FS_RemoveElement
  <2>7. PICK q \in [1..n -> T \ {t}] : InOrder(q, R)
    BY <1>2, <2>6
  <2> DEFINE r == [k \in 1..(n + 1) |-> IF k = n + 1 THEN t ELSE q[k]]
  <2>8. r \in [1..Cardinality(T) -> T]
    BY <2>1
  <2>9. \A k, l \in 1..(n + 1) : k < l => <<r[k], r[l]>> \in R
    <3>1. SUFFICES ASSUME NEW k \in 1..(n + 1), NEW l \in 1..(n + 1), k < l
                   PROVE  <<r[k], r[l]>> \in R
      OBVIOUS
    <3>2. k \in 1..n /\ k # n + 1 BY <3>1
    <3>3. CASE l = n + 1
      <4>1. q[k] \in T /\ q[k] # t BY <3>2
      <4> QED BY <2>5, <3>2, <3>3, <4>1
    <3>4. CASE l # n + 1
      <4>1. l \in 1..n BY <3>4
      <4> QED BY <2>7, <3>1, <3>2, <3>4, <4>1 DEF InOrder
    <3> QED BY <3>3, <3>4
  <2>10. InOrder(r, R)
    <3>1. DOMAIN r = 1..(n + 1) OBVIOUS
    <3> HIDE DEF r
    <3> QED BY <2>9, <3>1 DEF InOrder
  <2> HIDE DEF r
  <2> QED BY <2>8, <2>10
<1>3. Nat \subseteq N
  <2> HIDE DEF N
  <2> QED BY <1>1, <1>2, NatSet
<1>4. Cardinality(S) \in Nat BY FS_CardinalityType
<1> QED BY <1>3, <1>4

\* Sorted lists the set, each element once, in the order.
LEMMA SortedIs ==
  ASSUME NEW S, IsFiniteSet(S), NEW R, Orders(R, S)
  PROVE  /\ Sorted(S, R) \in [1..Cardinality(S) -> S]
         /\ InOrder(Sorted(S, R), R)
         /\ Sorted(S, R) \in Seq(S)
<1>1. PICK q \in [1..Cardinality(S) -> S] : InOrder(q, R)
  BY SortedExists
<1>2. /\ Sorted(S, R) \in [1..Cardinality(S) -> S]
      /\ InOrder(Sorted(S, R), R)
  BY <1>1 DEF Sorted, InOrder
<1>3. Cardinality(S) \in Nat BY FS_CardinalityType
<1> QED BY <1>2, <1>3

\* Every element is in the sorted sequence, if no two are equal in the order.
LEMMA SortedCovers ==
  ASSUME NEW S, IsFiniteSet(S), NEW R, Orders(R, S),
         \A x \in S : <<x, x>> \notin R
  PROVE  \A x \in S : \E n \in DOMAIN Sorted(S, R) : Sorted(S, R)[n] = x
<1> DEFINE q == Sorted(S, R)
           N == Cardinality(S)
<1>1. q \in [1..N -> S] /\ InOrder(q, R)
  BY SortedIs
<1>2. N \in Nat
  BY FS_CardinalityType
<1> HIDE DEF q
<1>3. ASSUME NEW x \in S, \A n \in DOMAIN q : q[n] # x PROVE FALSE
  <2> DEFINE T == S \ {x}
  <2>1. IsFiniteSet(T) /\ Cardinality(T) = N - 1
    BY FS_RemoveElement
  <2>2. IsFiniteSet(1..N) /\ Cardinality(1..N) = N
    BY <1>2, FS_Interval
  <2>3. q \in [1..N -> T]
    BY <1>1, <1>3
  <2> HIDE DEF N, T
  <2>4. Cardinality(T) < Cardinality(1..N)
    BY <1>2, <2>1, <2>2
  <2>5. PICK m, n \in 1..N : m # n /\ q[m] = q[n]
    BY <2>1, <2>2, <2>3, <2>4, FS_PigeonHole
  <2>6. m < n \/ n < m
    BY <2>5
  <2>7. /\ m < n => <<q[m], q[n]>> \in R
        /\ n < m => <<q[n], q[m]>> \in R
    BY <1>1 DEF InOrder
  <2>8. q[m] \in S
    BY <1>1
  <2> QED BY <2>5, <2>6, <2>7, <2>8
<1> QED BY <1>3 DEF q
=============================================================================
