----------------------------- MODULE MCScalingXApp -----------------------------
(***************************************************************************)
(* Instances of ScalingXApp for TLC.                                       *)
(***************************************************************************)
EXTENDS ScalingXApp, TLC

CONSTANTS s1, t1, d1

OneScaling == {s1}
OneTs      == {t1}
OneTarget  == {d1}

\* The thresholds around the limits of the validity check.
EdgeThresholds == {-1, 0, 100, 101}
================================================================================
