--------------------------- MODULE MCNetworkIntent ---------------------------
(* One NetworkIntent of each profile, with a bounded number of faults.      *)
EXTENDS NetworkIntentReconciler
=============================================================================
