--------------------------- MODULE MCLearningLoop ---------------------------
(* Small instances of LearningLoop for TLC. *)
EXTENDS LearningLoop

\* Two Japanese words; the second sentence has no explanation yet.
OneLanguage == [i \in {1, 2} |-> "ja"]
TwoSentences ==
    <<[lang |-> "ja", items |-> {1}, explained |-> TRUE],
      [lang |-> "ja", items |-> {1, 2}, explained |-> FALSE]>>

\* The default mix and the one of a backlog.
DefaultRatios == [review |-> 70, new |-> 20, exploration |-> 10]
OverdueRatios == [review |-> 85, new |-> 5, exploration |-> 10]

\* The first word is reviewed, the second one is known when asked about.
OneReviewed == <<{"unknown", "uncertain"}, {"known"}>>

\* Words not known well are due within half a day, known ones not again here.
Soon == [unknown |-> {0}, uncertain |-> {0}, known |-> {2}]
=============================================================================
