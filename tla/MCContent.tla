----------------------------- MODULE MCContent -----------------------------
\* The two ways in which content comes into the database, side by side: jobs of
\* the worker (JobQueue) and files of an operator (SeedContent). They share no
\* variable, so one of them is chosen at the start.
EXTENDS MCJobQueue, MCSeedContent

VARIABLE part

contentVars == <<vars, seedVars, part>>

MCInit ==
    /\ Init /\ SeedInit
    /\ part \in {"jobs", "files"}
    /\ part = "jobs" => items = <<>>

MCNext ==
    \/ part = "jobs" /\ Next /\ UNCHANGED <<seedVars, part>>
    \/ part = "files" /\ SeedNext /\ UNCHANGED <<vars, part>>

MCSpec == MCInit /\ [][MCNext]_contentVars

Interchangeable == Permutations({w1, w2, w3}) \cup Permutations({p1, p2})
=============================================================================
