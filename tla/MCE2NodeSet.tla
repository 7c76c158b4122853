---------------------------- MODULE MCE2NodeSet ----------------------------
(* One E2NodeSet with a few nodes and a bounded number of faults.           *)
EXTENDS E2NodeSetController
=============================================================================
