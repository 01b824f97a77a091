------------------------------- MODULE Lists -------------------------------
(***************************************************************************)
(* Sequences made from a sequence and from a set, over sets instead of     *)
(* operators: what they keep is a set of values and what they order by is  *)
(* a set of pairs, so that lemmas about them can be stated and cited.      *)
(***************************************************************************)
EXTENDS Naturals, Sequences, FiniteSets

\* The elements of q that are in `keep', in their order.
Filtered(q, keep) ==
    LET upTo[n \in 0..Len(q)] ==
            IF n = 0 THEN <<>>
            ELSE IF q[n] \in keep THEN Append(upTo[n - 1], q[n])
                 ELSE upTo[n - 1]
    IN  upTo[Len(q)]

\* The elements of S, each once, smaller ones first.
Sorted(S, smaller) ==
    CHOOSE q \in [1..Cardinality(S) -> S] :
        \A m, n \in DOMAIN q : m < n => <<q[m], q[n]>> \in smaller

Least(S) == CHOOSE x \in S : \A y \in S : x <= y
Greatest(S) == CHOOSE x \in S : \A y \in S : x >= y
=============================================================================
