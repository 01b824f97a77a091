--------------------------- MODULE MCStudySession ---------------------------
(* Small instances of StudySession for TLC. *)
EXTENDS StudySession, TLC

CONSTANTS r1, r2, r3, p1, p2, t1, t2, i1, i2, k1, k2

\* What happens on one screen, and what happens around it.
OnScreen == {"start", "next", "complete", "finish", "look", "report", "answer",
             "skip", "extend", "flag"}
Around == {"start", "next", "complete", "finish", "flag"}

OneSentence == t1 :> {i1}
TwoSentences == t1 :> {i1} @@ t2 :> {i2}

Sym == Permutations({r1, r2, r3}) \cup Permutations({p1, p2})
           \cup Permutations({k1, k2})
=============================================================================
