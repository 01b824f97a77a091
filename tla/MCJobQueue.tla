----------------------------- MODULE MCJobQueue -----------------------------
(* Instances of JobQueue for TLC. *)
EXTENDS JobQueue, TLC

CONSTANTS j1, j2, e1, e2, t1, t2, w1, w2, w3

AllPoints == Executing \cup {"polling", "logging"}
\* Everywhere but between mark_validated and the commit of the content.
RecoverablePoints == AllPoints \ {"storing", "committing"}

NoSlots == <<>>
Empty == {}
ExplainBoth == {e1, e2}
OneSlot == [j \in ExplainBoth |-> t2]

SymAll == Permutations({j1, j2}) \cup Permutations({t1, t2})
          \cup Permutations({w1, w2})
=============================================================================
