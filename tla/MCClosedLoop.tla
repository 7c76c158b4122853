----------------------------- MODULE MCClosedLoop -----------------------------
(* Instances of ClosedLoop for TLC.                                         *)
EXTENDS ClosedLoop

OneComponent == <<"oai-odu">>
=============================================================================
