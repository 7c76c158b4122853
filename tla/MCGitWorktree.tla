----------------------------- MODULE MCGitWorktree -----------------------------
(***************************************************************************)
(* Instances of GitWorktree for TLC: two jobs got the same plan id from    *)
(* the planner and have one file name in common.                           *)
(***************************************************************************)
EXTENDS GitWorktree, TLC

CONSTANTS j1, j2, j3, p1, p2, f1, f2, f3

SharedPlan == j1 :> p1 @@ j2 :> p1 @@ j3 :> p2
Packages   == j1 :> {f1, f2} @@ j2 :> {f2} @@ j3 :> {f3}
Directory  == f1 :> p1 @@ f2 :> p1 @@ f3 :> p2
================================================================================
