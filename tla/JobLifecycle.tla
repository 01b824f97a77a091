---------------------------- MODULE JobLifecycle ----------------------------
(***************************************************************************)
(* What the job queue promises to the code that enqueues: every job is     *)
(* executed at most Budget times, ends at most once, and what it produces  *)
(* appears in one step together with its end. Workers, leases, the ORM and *)
(* the provider are not visible here.                                      *)
(***************************************************************************)
EXTENDS Naturals

CONSTANTS
    Jobs,    \* the jobs there may be
    Texts,   \* what a job can produce
    Budget   \* how often a job may be started

VARIABLES
    phase,   \* where each job is
    tries,   \* how often it was started
    content  \* what it produced

vars == <<phase, tries, content>>

Phases == {"absent", "waiting", "running", "done", "dead"}

Init ==
    /\ phase = [j \in Jobs |-> "absent"]
    /\ tries = [j \in Jobs |-> 0]
    /\ content = [j \in Jobs |-> {}]

Submit(j) ==
    /\ phase[j] = "absent"
    /\ phase' = [phase EXCEPT ![j] = "waiting"]
    /\ UNCHANGED <<tries, content>>

Start(j) ==
    /\ phase[j] = "waiting"
    /\ tries[j] < Budget
    /\ phase' = [phase EXCEPT ![j] = "running"]
    /\ tries' = [tries EXCEPT ![j] = @ + 1]
    /\ UNCHANGED content

\* Attempts end without a result, several at once when leases have run out:
\* some of the jobs wait again, if they may be started once more.
Release(lost, again) ==
    /\ \A j \in lost : phase[j] = "running"
    /\ \A j \in again : tries[j] < Budget
    /\ phase' = [j \in Jobs |-> IF j \in again THEN "waiting"
                                ELSE IF j \in lost THEN "dead" ELSE phase[j]]
    /\ UNCHANGED <<tries, content>>

Finish(j, result) ==
    /\ phase[j] = "running"
    /\ phase' = [phase EXCEPT ![j] = "done"]
    /\ content' = [content EXCEPT ![j] = result]
    /\ UNCHANGED tries

Next ==
    \/ \E j \in Jobs : \/ Submit(j)
                       \/ Start(j)
                       \/ \E result \in SUBSET Texts : Finish(j, result)
    \/ \E lost \in SUBSET Jobs : \E again \in SUBSET lost : Release(lost, again)

Spec == Init /\ [][Next]_vars
=============================================================================
