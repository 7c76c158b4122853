--------------------------- MODULE MCIntentPipeline ---------------------------
(***************************************************************************)
(* Instances of IntentPipeline for TLC.                                    *)
(***************************************************************************)
EXTENDS IntentPipeline, TLC

CONSTANTS i1, i2, p1, p2

TwoIds   == {i1, i2}
TwoPlans == {p1, p2}
OnePlan  == {p1}

\* Intents and plans are interchangeable.
Symmetry == Permutations(TwoIds) \cup Permutations(TwoPlans)
===============================================================================
