------------------------------- MODULE MCApp -------------------------------
\* The three parts of the page that keep state, side by side: the learner is in
\* the login area (StudyApp), in the demo, or at kana practice. They share no
\* variable, so one of them is chosen at the start.
EXTENDS StudyApp, DemoTour, KanaRound

VARIABLE part

allVars == <<appVars, demoVars, kanaVars, part>>

\* Four sentences; a word of the first and of the second come again.
MCWordsOf == <<{"w1"}, {"w2"}, {"w1", "w3"}, {"w2"}>>
\* Two of three characters are read alike.
MCRomaji == [k \in {"di", "ji", "a"} |-> IF k = "di" THEN "ji" ELSE k]
MCPool == DOMAIN MCRomaji

MCInit ==
    /\ AppInit /\ DemoInit /\ KanaInit
    /\ part \in {"study", "demo", "kana"}
    /\ part # "study" => ~cookie
    /\ part # "demo" => demoSlot = SlotRemoved(demoSlot) /\ demoSlot.works
    /\ part # "kana" => kanaSlot.works

MCNext ==
    \/ part = "study" /\ AppNext /\ UNCHANGED <<demoVars, kanaVars, part>>
    \/ part = "demo" /\ DemoStep /\ UNCHANGED <<appVars, kanaVars, part>>
    \/ part = "kana" /\ KanaStep /\ UNCHANGED <<appVars, demoVars, part>>

MCSpec == MCInit /\ [][MCNext]_allVars /\ AppFairness
=============================================================================
