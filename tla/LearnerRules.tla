---------------------------- MODULE LearnerRules ----------------------------
(***************************************************************************)
(* The decisions of the learning engine that depend on nothing but their   *)
(* arguments.                                                              *)
(*                                                                         *)
(*   backend/app/learning/selection.py     category mix, review reason     *)
(*   backend/app/learning/progression.py   the context ladder              *)
(*   backend/app/learning/mastery.py       the moving average              *)
(*   backend/app/learning/probe.py         what a mastery is closest to    *)
(*                                                                         *)
(* Ratios and shares are percentages, so that the deficits are exact: the  *)
(* code rounds them to nine digits for the same reason.                    *)
(***************************************************************************)
EXTENDS Integers, FiniteSets, SequencesExt, Lists

Roles == {"review", "new", "exploration"}

\* TIE_ORDER
TieOrder == [review |-> 0, new |-> 1, exploration |-> 2]

Reasons == {"context_repair", "fsrs_due", "reinforcement"}
NoReason == "none"

Signals == {"unknown", "uncertain", "known"}
NoSignal == "none"
PromotingSignals == {"unknown", "uncertain"}

-----------------------------------------------------------------------------
(* Category mix and review reason *)

\* How far a role is behind its share, this presentation included.
Deficit(ratio, count, total) == ratio * (total + 1) - 100 * count

\* rank_categories: largest deficit first, ties in the tie order.
RankCategories(ratios, counts) ==
    LET total == counts["review"] + counts["new"] + counts["exploration"]
        deficit == [r \in Roles |-> Deficit(ratios[r], counts[r], total)]
        Ahead(r, s) == \/ deficit[r] > deficit[s]
                       \/ /\ deficit[r] = deficit[s]
                          /\ TieOrder[r] < TieOrder[s]
    IN  Sorted(Roles, {rs \in Roles \X Roles : Ahead(rs[1], rs[2])})

\* choose_review_reason: repairs first, then the share reinforcement is owed.
ChooseReviewReason(available, reviews, reinforcements, share) ==
    LET order == IF share * (reviews + 1) > 100 * reinforcements
                 THEN <<"context_repair", "reinforcement", "fsrs_due">>
                 ELSE <<"context_repair", "fsrs_due", "reinforcement">>
        usable == Filtered(order, available)
    IN  IF usable = <<>> THEN NoReason ELSE usable[1]

-----------------------------------------------------------------------------
(* The context ladder: stages are their rank *)

Anchor == 0
NearOriginal == 1
Varied == 2
NewContext == 3
Stages == Anchor..NewContext

\* _one_step, up and down
StepUp(stage) == IF stage = NewContext THEN NewContext ELSE stage + 1
StepDownUnbounded(stage) == stage - 1
StepDown(stage) == IF stage = Anchor THEN Anchor ELSE stage - 1

\* advance_context_stage: steps start from the stage that was shown, success
\* never lowers the current stage and failure never raises it.
AdvancedFromCurrent(current, shown, failed) ==
    IF failed THEN StepDown(current) ELSE StepUp(current)
AdvancedStage(current, shown, failed) ==
    IF failed
    THEN IF StepDown(shown) < current THEN StepDown(shown) ELSE current
    ELSE IF StepUp(shown) > current THEN StepUp(shown) ELSE current

-----------------------------------------------------------------------------
(* Mastery: 0 not measured, else the observation the value is closest to   *)
(* (1 unknown, 2 uncertain, 3 known).                                      *)

NotMeasured == 0
Observation == [unknown |-> 1, uncertain |-> 2, known |-> 3]

\* ema: the first value is the observation, later ones lie in between.
EmaOutcomes(old, signal) ==
    LET seen == Observation[signal]
    IN  IF old = NotMeasured THEN {seen}
        ELSE IF old <= seen THEN old..seen ELSE seen..old

\* _priority: 1 no evidence, 2 uncertain, 0 not worth asking
ProbePriority(mastery) ==
    CASE mastery = NotMeasured -> 1
      [] mastery = Observation["uncertain"] -> 2
      [] OTHER -> 0
=============================================================================
