-------------------------- MODULE GitWorktree_proofs --------------------------
(***************************************************************************)
(* Proofs about push_to_gitops, for any jobs, plans, packages, crashes and *)
(* any number of workers.                                                  *)
(*                                                                         *)
(* There is no lock around the working tree.  The inductive invariant      *)
(* follows a job that has the tree to itself: what _ensure_repo makes of   *)
(* whatever it finds (the index is the tip of main, the branch is checked  *)
(* out), and the way of the job's packages from there to the server.  For  *)
(* the other jobs it says which branches they may have spoilt.             *)
(***************************************************************************)
EXTENDS GitWorktree, TLAPS

(* Type correctness, and a job that opens a pull request has pushed.        *)
TypeInv ==
  /\ TypeOK
  /\ \A j \in Jobs : pc[j] = "pr" => PlanOf[j] \in Remote

(* Jobs that are in push_to_gitops together are disturbed.                  *)
Overlap == \A j, k \in Jobs : pc[j] \in Steps /\ pc[k] \in Steps /\ j # k => j \in disturbed

(* Apart from the packages of branch b, a tree holds what main has had.     *)
Inherited(tree, b) ==
  \A f \in Files : DirOf[f] # b => tree[f] \in onMain[f] \cup {Nothing}

(* That is so of every branch that overlapping jobs have not spoilt, in the *)
(* clone and on the server.                                                 *)
Branched ==
  /\ \A b \in Local \ mixed : Inherited(local[b], b)
  /\ \A b \in Remote \ ({Main} \cup mixed) : Inherited(remote[b], b)
  /\ Inherited(remote[Main], Main)

(* The way of the packages of a job that is alone, from the directory to    *)
(* the server.                                                              *)
JobAt(j) ==
  /\ pc[j] \in {"pull", "branch", "newmain", "newbranch"}
       => head = Main /\ index = local[Main]
  /\ pc[j] \in {"copy", "add", "commit"} => head = PlanOf[j]
  /\ pc[j] \in {"copy", "add"} => index = local[PlanOf[j]]
  /\ pc[j] = "add" => \A f \in FilesOf[j] : files[f] = j
  /\ pc[j] = "commit"
       => \A f \in Files : index[f] = IF f \in FilesOf[j] THEN j ELSE local[PlanOf[j]][f]
  /\ pc[j] = "push" => \A f \in FilesOf[j] : local[PlanOf[j]][f] = j
  /\ pc[j] = "pr" => \A f \in FilesOf[j] : remote[PlanOf[j]][f] = j

TreeInv == Overlap /\ Branched /\ \A j \in Jobs \ disturbed : JobAt(j)

-----------------------------------------------------------------------------
(* Types.                                                                  *)

(* Where a job goes.                                                        *)
LEMMA GotoType ==
  ASSUME TypeInv, NEW j \in Jobs, NEW from, NEW to \in Steps \cup {"done"},
         Goto(j, from, to)
  PROVE  /\ pc' \in [Jobs -> Steps \cup {"idle", "done", "failed"}]
         /\ pc[j] = from /\ pc'[j] = to
         /\ \A k \in Jobs \ {j} : pc'[k] = pc[k]
  BY DEF TypeInv, TypeOK, Goto

(* The history variables keep their types.                                  *)
LEMMA HistoryTypes ==
  ASSUME TypeInv, Next
  PROVE  disturbed' \subseteq Jobs /\ mixed' \subseteq Branches
<1>1. /\ disturbed \subseteq Jobs /\ mixed \subseteq Branches
      /\ head \in Branches /\ \A j \in Jobs : PlanOf[j] \in Branches
  BY WorktreeAssumption DEF TypeInv, TypeOK, Local, Branches
<1>2. CASE \E j \in Jobs : Start(j)
  BY <1>1, <1>2 DEF Start, Inside
<1>3. CASE \E j \in Jobs : NewBranch(j)
  BY <1>1, <1>3 DEF NewBranch
<1>4. CASE \E j \in Jobs : Commit(j)
  BY <1>1, <1>4 DEF Commit
<1>5. CASE UNCHANGED history
  BY <1>1, <1>5 DEF history
<1>6. ASSUME NEW j \in Jobs, Work(j), ~Start(j), ~NewBranch(j), ~Commit(j)
      PROVE  UNCHANGED history
  BY <1>6 DEF Work, Clone, Reset, Clean, CheckoutMain, Pull, CheckoutBranch,
              NoBranch, SwitchToMain, CopyPackages, Add, Push, OpenPr, GitRaises
<1>7. (Crash \/ \E p \in Plans : Merge(p)) => UNCHANGED history
  BY DEF Crash, Merge
<1> QED BY <1>2, <1>3, <1>4, <1>5, <1>6, <1>7 DEF Next

(* The clone is set up on main.                                             *)
LEMMA InitTypeInv == Init => TypeInv
<1> SUFFICES ASSUME Init PROVE TypeInv
  OBVIOUS
<1>1. Empty \in Trees
  BY DEF Empty, Trees
<1>2. Local = {Main} /\ Remote = {Main} /\ Main \in Branches
  BY DEF Init, Local, Remote, Branches
<1>3. /\ \A b \in Local : local[b] \in Trees
      /\ \A b \in Remote : remote[b] \in Trees
  BY <1>1, <1>2 DEF Init
<1>4. crashes \in 0..MaxCrashes
  BY WorktreeAssumption DEF Init
<1> QED BY <1>1, <1>2, <1>3, <1>4 DEF Init, TypeInv, TypeOK

(* _ensure_repo keeps the types.                                            *)
LEMMA EnsureTypes ==
  ASSUME TypeInv, NEW j \in Jobs,
         \/ Start(j) \/ Clone(j) \/ Reset(j) \/ Clean(j) \/ CheckoutMain(j)
         \/ Pull(j)
  PROVE  TypeInv'
<1>h. disturbed' \subseteq Jobs /\ mixed' \subseteq Branches
  BY HistoryTypes DEF Next, Work
<1>s. {"ensure", "clean", "main", "pull", "branch"} \subseteq Steps
      /\ "pr" \notin {"ensure", "clean", "main", "pull", "branch"}
  BY DEF Steps
<1>1. PICK to \in {"ensure", "clean", "main", "pull", "branch"} :
        \E from : Goto(j, from, to)
  BY DEF Start, Clone, Reset, Clean, CheckoutMain, Pull
<1>2. /\ pc' \in [Jobs -> Steps \cup {"idle", "done", "failed"}]
      /\ \A k \in Jobs : pc'[k] = "pr" => pc[k] = "pr"
  BY <1>1, <1>s, GotoType
<1>3. UNCHANGED <<server, prs, crashes>>
  BY DEF history, Start, Clone, Reset, Clean, CheckoutMain, Pull
<1>4. head \in Local /\ Main \in Local /\ Main \in Remote
      /\ (\A b \in Local : local[b] \in Trees) /\ remote[Main] \in Trees
      /\ index \in Trees /\ files \in Trees
  BY DEF TypeInv, TypeOK
<1>p. Pulled \in Trees
  BY <1>4 DEF Pulled, Trees
<1>5. index' \in Trees /\ files' \in Trees /\ cloned' \in BOOLEAN
  BY <1>4, <1>p DEF Start, Clone, Reset, Clean, CheckoutMain, Pull, Forced, Trees,
                    repo, TypeInv, TypeOK
<1>6. /\ head' \in Local' /\ Main \in Local' /\ DOMAIN local' \subseteq Branches
      /\ \A b \in Local' : local'[b] \in Trees
  <2>1. CASE Clone(j)
    BY <2>1, <1>4 DEF Clone, Local, Branches
  <2>2. CASE Pull(j)
    BY <2>2, <1>4, <1>p DEF Pull, Local, TypeInv, TypeOK
  <2>3. CASE Start(j) \/ Reset(j) \/ Clean(j) \/ CheckoutMain(j)
    BY <2>3, <1>4 DEF Start, Reset, Clean, CheckoutMain, Local, repo, TypeInv,
                      TypeOK
  <2> QED BY <2>1, <2>2, <2>3
<1> QED
  BY <1>h, <1>2, <1>3, <1>5, <1>6 DEF TypeInv, TypeOK, server, Remote

(* _create_branch keeps the types.                                          *)
LEMMA BranchTypes ==
  ASSUME TypeInv, NEW j \in Jobs,
         \/ CheckoutBranch(j) \/ NoBranch(j) \/ SwitchToMain(j) \/ NewBranch(j)
  PROVE  TypeInv'
<1>h. disturbed' \subseteq Jobs /\ mixed' \subseteq Branches
  BY HistoryTypes DEF Next, Work
<1>s. {"newmain", "newbranch", "copy"} \subseteq Steps
  BY DEF Steps
<1>1. PICK to \in {"newmain", "newbranch", "copy"} :
        \E from : Goto(j, from, to)
  BY DEF CheckoutBranch, NoBranch, SwitchToMain, NewBranch
<1>2. /\ pc' \in [Jobs -> Steps \cup {"idle", "done", "failed"}]
      /\ \A k \in Jobs : pc'[k] = "pr" => pc[k] = "pr"
  BY <1>1, <1>s, GotoType
<1>3. UNCHANGED <<server, prs, crashes, cloned>>
  BY DEF CheckoutBranch, NoBranch, SwitchToMain, NewBranch, repo
<1>4. head \in Local /\ Main \in Local /\ DOMAIN local \subseteq Branches
      /\ (\A b \in Local : local[b] \in Trees)
      /\ index \in Trees /\ files \in Trees
  BY DEF TypeInv, TypeOK
<1>5. \A b \in Local, t \in Trees : Switched(t, b) \in Trees
  BY <1>4 DEF Switched, Trees
<1>6. index' \in Trees /\ files' \in Trees
  BY <1>4, <1>5 DEF CheckoutBranch, NoBranch, SwitchToMain, NewBranch, Switch,
                    repo
<1>7. /\ head' \in Local' /\ Main \in Local' /\ DOMAIN local' \subseteq Branches
      /\ \A b \in Local' : local'[b] \in Trees
  <2>1. CASE NewBranch(j)
    <3>1. PlanOf[j] \in Branches
      BY WorktreeAssumption DEF Branches
    <3>2. /\ DOMAIN local' = DOMAIN local \cup {PlanOf[j]}
          /\ \A b \in DOMAIN local' :
               local'[b] = IF b = PlanOf[j] THEN local[head] ELSE local[b]
      BY <2>1 DEF NewBranch, Put
    <3> QED BY <2>1, <1>4, <3>1, <3>2 DEF NewBranch, Local
  <2>2. CASE CheckoutBranch(j) \/ NoBranch(j) \/ SwitchToMain(j)
    BY <2>2, <1>4 DEF CheckoutBranch, NoBranch, SwitchToMain, Switch, Local,
                      repo
  <2> QED BY <2>1, <2>2
<1> QED
  BY <1>h, <1>2, <1>3, <1>6, <1>7 DEF TypeInv, TypeOK, server, Remote

(* _copy_packages, _commit_and_push and _open_pr keep the types.            *)
LEMMA PublishTypes ==
  ASSUME TypeInv, NEW j \in Jobs,
         \/ CopyPackages(j) \/ Add(j) \/ Commit(j) \/ Push(j) \/ OpenPr(j)
         \/ GitRaises(j)
  PROVE  TypeInv'
<1>h. disturbed' \subseteq Jobs /\ mixed' \subseteq Branches
  BY HistoryTypes DEF Next, Work
<1>s. {"add", "commit", "push", "pr"} \subseteq Steps
  BY DEF Steps
<1>p. PlanOf[j] \in Plans /\ PlanOf[j] \in Branches /\ PlanOf[j] # Main
  BY WorktreeAssumption DEF Branches
<1>4. head \in Local /\ Main \in Local /\ DOMAIN local \subseteq Branches
      /\ (\A b \in Local : local[b] \in Trees)
      /\ index \in Trees /\ files \in Trees
  BY DEF TypeInv, TypeOK
<1>1. CASE CopyPackages(j) \/ Add(j) \/ Commit(j)
  <2>1. PICK to \in {"add", "commit", "push"} :
          \E from : Goto(j, from, to)
    BY <1>1 DEF CopyPackages, Add, Commit
  <2>2. /\ pc' \in [Jobs -> Steps \cup {"idle", "done", "failed"}]
        /\ \A k \in Jobs : pc'[k] = "pr" => pc[k] = "pr"
    BY <2>1, <1>s, GotoType
  <2>3. UNCHANGED <<server, prs, crashes, cloned, head>>
    BY <1>1 DEF CopyPackages, Add, Commit
  <2>4. index' \in Trees /\ files' \in Trees
    BY <1>1, <1>4, <1>p DEF CopyPackages, Add, Commit, Trees
  <2>5. /\ head' \in Local' /\ Main \in Local'
        /\ DOMAIN local' \subseteq Branches
        /\ \A b \in Local' : local'[b] \in Trees
    BY <1>1, <1>4, <2>3 DEF CopyPackages, Add, Commit, Local
  <2> QED BY <1>h, <2>2, <2>3, <2>4, <2>5 DEF TypeInv, TypeOK, server, Remote
<1>2. CASE Push(j)
  <2>1. /\ pc' \in [Jobs -> Steps \cup {"idle", "done", "failed"}]
        /\ \A k \in Jobs \ {j} : pc'[k] = pc[k]
    BY <1>2, <1>s, GotoType DEF Push
  <2>2. UNCHANGED <<repo, onMain, prs, crashes>>
    BY <1>2 DEF Push
  <2>3. /\ DOMAIN remote' = DOMAIN remote \cup {PlanOf[j]}
        /\ \A b \in DOMAIN remote' :
             remote'[b] = IF b = PlanOf[j] THEN local[PlanOf[j]] ELSE remote[b]
    BY <1>2 DEF Push, Put
  <2>4. local[PlanOf[j]] \in Trees
    BY <1>2, <1>4 DEF Push
  <2>5. /\ Remote' = Remote \cup {PlanOf[j]}
        /\ DOMAIN remote' \subseteq Branches
        /\ \A b \in Remote' : remote'[b] \in Trees
    BY <2>3, <2>4, <1>p DEF TypeInv, TypeOK, Remote
  <2>6. Local' = Local
    BY <2>2 DEF Local, repo
  <2> QED BY <1>h, <2>1, <2>2, <2>5, <2>6 DEF TypeInv, TypeOK, repo
<1>3. CASE OpenPr(j)
  <2>1. /\ pc' \in [Jobs -> Steps \cup {"idle", "done", "failed"}]
        /\ \A k \in Jobs : pc'[k] = "pr" => pc[k] = "pr"
        /\ pc[j] = "pr"
    BY <1>3, <1>s, GotoType DEF OpenPr
  <2>2. PlanOf[j] \in Remote \ {Main}
    BY <2>1, <1>p DEF TypeInv
  <2>3. UNCHANGED <<repo, server, crashes>>
    BY <1>3 DEF OpenPr
  <2>4. prs' \subseteq Remote \ {Main}
    BY <1>3, <2>2 DEF OpenPr, TypeInv, TypeOK
  <2> QED
    BY <1>h, <2>1, <2>3, <2>4 DEF TypeInv, TypeOK, repo, server, Local, Remote
<1>5. CASE GitRaises(j)
  <2>1. /\ pc' \in [Jobs -> Steps \cup {"idle", "done", "failed"}]
        /\ \A k \in Jobs : pc'[k] = "pr" => pc[k] = "pr"
    BY <1>5 DEF GitRaises, TypeInv, TypeOK
  <2> QED
    BY <1>h, <1>5, <2>1 DEF GitRaises, TypeInv, TypeOK, repo, server, Local, Remote
<1> QED BY <1>1, <1>2, <1>3, <1>5

(* A merge and a crash keep the types.                                      *)
LEMMA EnvironmentTypes ==
  ASSUME TypeInv, Crash \/ \E p \in Plans : Merge(p)
  PROVE  TypeInv'
<1>h. disturbed' \subseteq Jobs /\ mixed' \subseteq Branches
  BY HistoryTypes DEF Next, Work
<1>1. CASE Crash
  <2>1. /\ pc' \in [Jobs -> Steps \cup {"idle", "done", "failed"}]
        /\ \A k \in Jobs : pc'[k] = "pr" => pc[k] = "pr"
    BY <1>1 DEF Crash, TypeInv, TypeOK
  <2>2. crashes' \in 0..MaxCrashes
    BY <1>1, WorktreeAssumption DEF Crash, TypeInv, TypeOK
  <2> QED
    BY <1>h, <1>1, <2>1, <2>2 DEF Crash, TypeInv, TypeOK, repo, server, Local, Remote
<1>2. CASE \E p \in Plans : Merge(p)
  <2>1. PICK p \in Plans : Merge(p)
    BY <1>2
  <2> DEFINE changed == {q \in Files : remote[p][q] \notin onMain[q] \cup {Nothing}}
             merged == [q \in Files |-> IF q \in changed THEN remote[p][q]
                                        ELSE remote[Main][q]]
  <2>2. p \in Remote /\ remote[p] \in Trees /\ remote[Main] \in Trees
        /\ Main \in Remote
    BY <2>1 DEF Merge, TypeInv, TypeOK
  <2>3. merged \in Trees
    BY <2>2 DEF Trees
  <2>4. /\ remote' = [remote EXCEPT ![Main] = merged]
        /\ onMain' = [q \in Files |-> IF q \in changed
                                      THEN onMain[q] \cup {remote[p][q]}
                                      ELSE onMain[q]]
        /\ UNCHANGED <<repo, pc, crashes>> /\ prs' \subseteq prs
    BY <2>1 DEF Merge
  <2>5. \A q \in changed : remote[p][q] \in Jobs
    BY <2>2 DEF Trees
  <2>6. onMain' \in [Files -> SUBSET Jobs]
    BY <2>4, <2>5 DEF TypeInv, TypeOK
  <2> HIDE DEF changed, merged
  <2>7. Remote' = Remote /\ DOMAIN remote' = DOMAIN remote
        /\ \A b \in Remote : remote'[b] \in Trees
    BY <2>2, <2>3, <2>4 DEF Remote, TypeInv, TypeOK
  <2> QED BY <1>h, <2>4, <2>6, <2>7 DEF TypeInv, TypeOK, repo, Local
<1> QED BY <1>1, <1>2

(* Type correctness, however many workers share the working tree.           *)
LEMMA TypeInvariant == Spec => []TypeInv
<1>1. TypeInv /\ [Next]_vars => TypeInv'
  <2> SUFFICES ASSUME TypeInv, [Next]_vars PROVE TypeInv'
    OBVIOUS
  <2>1. CASE UNCHANGED vars
    BY <2>1 DEF vars, repo, server, history, TypeInv, TypeOK, Local, Remote
  <2> QED
    BY <2>1, EnsureTypes, BranchTypes, PublishTypes, EnvironmentTypes
       DEF Next, Work
<1> QED BY <1>1, InitTypeInv, PTL DEF Spec

(* The clone and the server are what git_ops.py takes them for, however     *)
(* many workers share the working tree.                                     *)
THEOREM WorktreeTypeOK == Spec => []TypeOK
<1>1. TypeInv => TypeOK
  BY DEF TypeInv
<1> QED BY <1>1, TypeInvariant, PTL

-----------------------------------------------------------------------------
(* Trees.                                                                  *)

(* Nothing is on the way in the beginning.                                  *)
LEMMA InitTreeInv == Init => TreeInv
<1> SUFFICES ASSUME Init PROVE TreeInv
  OBVIOUS
<1>1. \A k \in Jobs : pc[k] \notin Steps
  BY DEF Init, Steps
<1>2. Overlap /\ \A k \in Jobs : JobAt(k)
  BY <1>1 DEF Overlap, JobAt, Steps
<1>3. Local = {Main} /\ Remote = {Main} /\ local[Main] = Empty
      /\ remote[Main] = Empty
  BY DEF Init, Local, Remote, Branches
<1>4. Inherited(Empty, Main)
  BY DEF Inherited, Empty
<1> QED BY <1>2, <1>3, <1>4 DEF TreeInv, Branched

(* A step of a job that is in push_to_gitops: nobody else who is there is   *)
(* alone.                                                                   *)
LEMMA JobStep ==
  ASSUME TreeInv, NEW j \in Jobs, pc[j] \in Steps,
         \A k \in Jobs \ {j} : pc'[k] = pc[k],
         disturbed' = disturbed,
         Branched', j \notin disturbed => JobAt(j)'
  PROVE  TreeInv'
<1>1. \A k \in Jobs \ {j} : k \notin disturbed => pc[k] \notin Steps
  BY DEF TreeInv, Overlap
<1>2. Overlap'
  BY DEF TreeInv, Overlap
<1>3. \A k \in Jobs \ ({j} \cup disturbed) : JobAt(k)'
  BY <1>1 DEF JobAt, Steps
<1> QED BY <1>2, <1>3 DEF TreeInv

(* A job that enters while others are there disturbs them and itself.       *)
LEMMA StartKeepsTree ==
  ASSUME TypeInv, TreeInv, NEW j \in Jobs, Start(j)
  PROVE  TreeInv'
<1>1. /\ \A k \in Jobs \ {j} : pc'[k] = pc[k]
      /\ pc'[j] = "ensure"
      /\ UNCHANGED <<repo, server, mixed>>
  BY GotoType DEF Start, Steps
<1>2. /\ disturbed \subseteq disturbed'
      /\ Inside # {} => Inside \cup {j} \subseteq disturbed'
  BY DEF Start
<1>3. Overlap'
  <2> SUFFICES ASSUME NEW k \in Jobs, NEW m \in Jobs, pc'[k] \in Steps,
                      pc'[m] \in Steps, k # m
               PROVE  k \in disturbed'
    BY DEF Overlap
  <2>1. k = j \/ k \in Inside
    BY <1>1 DEF Inside
  <2>2. m = j \/ m \in Inside
    BY <1>1 DEF Inside
  <2> QED BY <1>2, <2>1, <2>2
<1>4. ASSUME NEW k \in Jobs \ disturbed' PROVE JobAt(k)'
  <2>1. CASE k = j
    BY <1>1, <2>1 DEF JobAt
  <2>2. CASE k # j
    <3>1. k \notin Inside
      BY <1>2, <1>4
    <3>2. pc'[k] \notin Steps
      BY <1>1, <2>2, <3>1 DEF Inside
    <3> QED BY <3>2 DEF JobAt, Steps
  <2> QED BY <2>1, <2>2
<1>5. Branched'
  BY <1>1 DEF TreeInv, Branched, Inherited, Local, Remote, repo, server
<1> QED BY <1>3, <1>4, <1>5 DEF TreeInv

(* _ensure_repo: whatever an earlier run left in the index is gone before a *)
(* branch is made.                                                          *)
LEMMA EnsureKeepsTree ==
  ASSUME TypeInv, TreeInv, NEW j \in Jobs,
         Clone(j) \/ Reset(j) \/ Clean(j) \/ CheckoutMain(j) \/ Pull(j)
  PROVE  TreeInv'
<1>s. {"ensure", "clean", "main", "pull", "branch"} \subseteq Steps
  BY DEF Steps
<1>1. UNCHANGED <<onMain, remote, disturbed, mixed>>
  BY DEF Clone, Reset, Clean, CheckoutMain, Pull, server, history
<1>2. /\ \A b \in Local \ mixed : Inherited(local[b], b)
      /\ \A b \in Remote \ ({Main} \cup mixed) : Inherited(remote[b], b)
      /\ Inherited(remote[Main], Main)
      /\ Main \in Local /\ \A f \in Files : DirOf[f] # Main
      /\ index \in Trees /\ local[Main] \in Trees
      /\ j \notin disturbed => JobAt(j)
  BY WorktreeAssumption DEF TreeInv, Branched, TypeInv, TypeOK
<1>3. /\ \A b \in Remote' \ ({Main} \cup mixed') : Inherited(remote[b], b)'
      /\ Inherited(remote[Main], Main)'
  BY <1>1, <1>2 DEF Remote, Inherited
<1>4. CASE Clone(j)
  <2>1. /\ pc[j] = "ensure" /\ pc'[j] = "branch"
        /\ \A k \in Jobs \ {j} : pc'[k] = pc[k]
    BY <1>4, <1>s, GotoType DEF Clone
  <2>2. /\ Local' = {Main} /\ local'[Main] = remote[Main] /\ index' = remote[Main]
        /\ head' = Main
    BY <1>4 DEF Clone, Local, Branches
  <2>3. Branched'
    BY <1>1, <1>2, <1>3, <2>2 DEF Branched, Inherited
  <2>4. JobAt(j)'
    BY <2>1, <2>2 DEF JobAt
  <2> QED BY <1>s, <1>1, <2>1, <2>3, <2>4, JobStep
<1>5. CASE Reset(j) \/ Clean(j)
  <2>1. /\ pc[j] \in Steps /\ pc'[j] \in {"clean", "main"}
        /\ \A k \in Jobs \ {j} : pc'[k] = pc[k]
    BY <1>5, <1>s, GotoType DEF Reset, Clean
  <2>2. local' = local
    BY <1>5 DEF Reset, Clean
  <2>3. Branched'
    BY <1>1, <1>2, <1>3, <2>2 DEF Branched, Local, Inherited
  <2>4. JobAt(j)'
    BY <2>1 DEF JobAt
  <2> QED BY <1>1, <2>1, <2>3, <2>4, JobStep
<1>6. CASE CheckoutMain(j)
  <2>1. /\ pc[j] = "main" /\ pc'[j] = "pull"
        /\ \A k \in Jobs \ {j} : pc'[k] = pc[k]
    BY <1>6, <1>s, GotoType DEF CheckoutMain
  <2>2. local' = local /\ index' = local[Main] /\ head' = Main
    BY <1>6 DEF CheckoutMain
  <2>3. Branched'
    BY <1>1, <1>2, <1>3, <2>2 DEF Branched, Local, Inherited
  <2>4. JobAt(j)'
    BY <2>1, <2>2 DEF JobAt
  <2> QED BY <1>s, <1>1, <2>1, <2>3, <2>4, JobStep
<1>7. CASE Pull(j)
  <2>1. /\ pc[j] = "pull" /\ pc'[j] = "branch"
        /\ \A k \in Jobs \ {j} : pc'[k] = pc[k]
    BY <1>7, <1>s, GotoType DEF Pull
  <2>2. /\ Local' = Local
        /\ local'[Main] = Pulled
        /\ \A b \in Local \ {Main} : local'[b] = local[b]
    BY <1>7, <1>2 DEF Pull, Local
  <2>3. \A f \in Files : Pulled[f] \in {remote[Main][f], local[Main][f]}
    BY DEF Pulled
  <2>4. \A b \in Local' \ mixed' : Inherited(local[b], b)'
    BY <1>1, <1>2, <2>2, <2>3 DEF Inherited
  <2>5. ASSUME j \notin disturbed PROVE JobAt(j)'
    <3>1. head = Main /\ index = local[Main]
      BY <1>2, <2>1, <2>5 DEF JobAt
    <3>2. index' = Pulled /\ head' = Main
      BY <1>7, <3>1 DEF Pull, Pulled
    <3> QED BY <2>1, <2>2, <3>2 DEF JobAt
  <2> QED BY <1>s, <1>1, <1>3, <2>1, <2>4, <2>5, JobStep DEF Branched
<1> QED BY <1>4, <1>5, <1>6, <1>7

(* _create_branch: a job that is alone gets its branch as it was, or as     *)
(* main is.                                                                 *)
LEMMA BranchKeepsTree ==
  ASSUME TypeInv, TreeInv, NEW j \in Jobs,
         \/ CheckoutBranch(j) \/ NoBranch(j) \/ SwitchToMain(j) \/ NewBranch(j)
  PROVE  TreeInv'
<1>s. {"branch", "newmain", "newbranch", "copy"} \subseteq Steps
  BY DEF Steps
<1>1. UNCHANGED <<onMain, remote, disturbed>> /\ mixed \subseteq mixed'
  BY DEF CheckoutBranch, NoBranch, SwitchToMain, NewBranch, server, history
<1>2. /\ \A b \in Local \ mixed : Inherited(local[b], b)
      /\ \A b \in Remote \ ({Main} \cup mixed) : Inherited(remote[b], b)
      /\ Inherited(remote[Main], Main)
      /\ Main \in Local /\ (\A f \in Files : DirOf[f] # Main)
      /\ PlanOf[j] \in Plans /\ PlanOf[j] # Main
      /\ head \in Local /\ \A b \in Local : local[b] \in Trees
      /\ j \notin disturbed => JobAt(j)
  BY WorktreeAssumption DEF TreeInv, Branched, TypeInv, TypeOK
<1>3. /\ \A b \in Remote' \ ({Main} \cup mixed') : Inherited(remote[b], b)'
      /\ Inherited(remote[Main], Main)'
  BY <1>1, <1>2 DEF Remote, Inherited
<1>4. j \notin disturbed /\ pc[j] \in {"branch", "newmain", "newbranch"}
        => head = Main /\ index = local[Main]
  BY <1>2 DEF JobAt
<1>5. CASE CheckoutBranch(j)
  <2>1. /\ pc[j] = "branch" /\ pc'[j] = "copy"
        /\ \A k \in Jobs \ {j} : pc'[k] = pc[k]
    BY <1>5, <1>s, GotoType DEF CheckoutBranch
  <2>2. /\ PlanOf[j] \in Local /\ head' = PlanOf[j] /\ local' = local
        /\ index' = Switched(index, PlanOf[j])
    BY <1>5 DEF CheckoutBranch, Switch
  <2>3. Branched'
    BY <1>1, <1>2, <1>3, <2>2 DEF Branched, Local, Inherited
  <2>4. ASSUME j \notin disturbed PROVE JobAt(j)'
    <3>1. \A f \in Files : index'[f] = local[PlanOf[j]][f]
      BY <1>4, <2>1, <2>2, <2>4 DEF Switched
    <3>2. index' = local[PlanOf[j]]
      BY <1>2, <2>2, <3>1 DEF Switched, Trees
    <3> QED BY <2>1, <2>2, <3>2 DEF JobAt
  <2> QED BY <1>s, <1>1, <2>1, <2>3, <2>4, JobStep
<1>6. CASE NoBranch(j)
  <2>1. /\ pc[j] = "branch" /\ pc'[j] = "newmain"
        /\ \A k \in Jobs \ {j} : pc'[k] = pc[k]
    BY <1>6, <1>s, GotoType DEF NoBranch
  <2>2. UNCHANGED <<local, index, head>>
    BY <1>6 DEF NoBranch, repo
  <2>3. Branched'
    BY <1>1, <1>2, <1>3, <2>2 DEF Branched, Local, Inherited
  <2>4. j \notin disturbed => JobAt(j)'
    BY <1>4, <2>1, <2>2 DEF JobAt
  <2> QED BY <1>s, <1>1, <2>1, <2>3, <2>4, JobStep
<1>7. CASE SwitchToMain(j)
  <2>1. /\ pc[j] = "newmain" /\ pc'[j] = "newbranch"
        /\ \A k \in Jobs \ {j} : pc'[k] = pc[k]
    BY <1>7, <1>s, GotoType DEF SwitchToMain
  <2>2. head' = Main /\ local' = local /\ index' = Switched(index, Main)
    BY <1>7 DEF SwitchToMain, Switch
  <2>3. Branched'
    BY <1>1, <1>2, <1>3, <2>2 DEF Branched, Local, Inherited
  <2>4. ASSUME j \notin disturbed PROVE JobAt(j)'
    <3>1. \A f \in Files : index'[f] = local[Main][f]
      BY <1>4, <2>1, <2>2, <2>4 DEF Switched
    <3>2. index' = local[Main]
      BY <1>2, <2>2, <3>1 DEF Switched, Trees
    <3> QED BY <2>1, <2>2, <3>2 DEF JobAt
  <2> QED BY <1>s, <1>1, <2>1, <2>3, <2>4, JobStep
<1>8. CASE NewBranch(j)
  <2>1. /\ pc[j] = "newbranch" /\ pc'[j] = "copy"
        /\ \A k \in Jobs \ {j} : pc'[k] = pc[k]
    BY <1>8, <1>s, GotoType DEF NewBranch
  <2>2. /\ head' = PlanOf[j] /\ index' = index
        /\ DOMAIN local' = DOMAIN local \cup {PlanOf[j]}
        /\ \A b \in DOMAIN local' :
             local'[b] = IF b = PlanOf[j] THEN local[head] ELSE local[b]
        /\ PlanOf[j] \notin mixed' => j \notin disturbed /\ head \notin mixed
    BY <1>8 DEF NewBranch, Put
  <2>3. PlanOf[j] \notin mixed' => Inherited(local[head], Main) /\ head = Main
    BY <1>2, <1>4, <2>1, <2>2
  <2>4. \A b \in Local' \ mixed' : Inherited(local[b], b)'
    <3> SUFFICES ASSUME NEW b \in Local' \ mixed' PROVE Inherited(local[b], b)'
      OBVIOUS
    <3>1. CASE b = PlanOf[j]
      BY <1>1, <1>2, <2>2, <2>3, <3>1 DEF Inherited, Local
    <3>2. CASE b # PlanOf[j]
      BY <1>1, <1>2, <2>2, <3>2 DEF Inherited, Local
    <3> QED BY <3>1, <3>2
  <2>5. j \notin disturbed => JobAt(j)'
    BY <1>4, <2>1, <2>2 DEF JobAt
  <2> QED BY <1>s, <1>1, <1>3, <2>1, <2>4, <2>5, JobStep DEF Branched
<1> QED BY <1>5, <1>6, <1>7, <1>8

(* _copy_packages, _commit_and_push and _open_pr: from the directory to the *)
(* index, the branch and the server.                                        *)
LEMMA PublishKeepsTree ==
  ASSUME TypeInv, TreeInv, NEW j \in Jobs,
         \/ CopyPackages(j) \/ Add(j) \/ Commit(j) \/ Push(j) \/ OpenPr(j)
         \/ GitRaises(j)
  PROVE  TreeInv'
<1>s. {"copy", "add", "commit", "push", "pr"} \subseteq Steps
  BY DEF Steps
<1>1. UNCHANGED <<onMain, disturbed>> /\ mixed \subseteq mixed'
  BY DEF CopyPackages, Add, Commit, Push, OpenPr, GitRaises, server, history
<1>2. /\ \A b \in Local \ mixed : Inherited(local[b], b)
      /\ \A b \in Remote \ ({Main} \cup mixed) : Inherited(remote[b], b)
      /\ Inherited(remote[Main], Main)
      /\ head \in Local /\ PlanOf[j] \in Branches /\ PlanOf[j] # Main
      /\ (\A f \in FilesOf[j] : DirOf[f] = PlanOf[j]) /\ FilesOf[j] \subseteq Files
      /\ index \in Trees
      /\ j \notin disturbed => JobAt(j)
  BY WorktreeAssumption DEF TreeInv, Branched, TypeInv, TypeOK, Branches
<1>3. CASE CopyPackages(j)
  <2>1. /\ pc[j] = "copy" /\ pc'[j] = "add"
        /\ \A k \in Jobs \ {j} : pc'[k] = pc[k]
    BY <1>3, <1>s, GotoType DEF CopyPackages
  <2>2. /\ \A f \in FilesOf[j] : files'[f] = j
        /\ UNCHANGED <<local, index, head, remote, mixed>>
    BY <1>3, <1>2 DEF CopyPackages, server, history
  <2>3. Branched'
    BY <1>1, <1>2, <2>2 DEF Branched, Local, Remote, Inherited
  <2>4. j \notin disturbed => JobAt(j)'
    BY <1>2, <2>1, <2>2 DEF JobAt
  <2> QED BY <1>s, <1>1, <2>1, <2>3, <2>4, JobStep
<1>4. CASE Add(j)
  <2>1. /\ pc[j] = "add" /\ pc'[j] = "commit"
        /\ \A k \in Jobs \ {j} : pc'[k] = pc[k]
    BY <1>4, <1>s, GotoType DEF Add
  <2>2. /\ \A f \in Files : index'[f] = IF f \in FilesOf[j] THEN files[f] ELSE index[f]
        /\ UNCHANGED <<local, head, remote, mixed>>
    BY <1>4 DEF Add, server, history
  <2>3. Branched'
    BY <1>1, <1>2, <2>2 DEF Branched, Local, Remote, Inherited
  <2>4. j \notin disturbed => JobAt(j)'
    BY <1>2, <2>1, <2>2 DEF JobAt
  <2> QED BY <1>s, <1>1, <2>1, <2>3, <2>4, JobStep
<1>5. CASE Commit(j)
  <2>1. /\ pc[j] = "commit" /\ pc'[j] = "push"
        /\ \A k \in Jobs \ {j} : pc'[k] = pc[k]
    BY <1>5, <1>s, GotoType DEF Commit
  <2>2. /\ Local' = Local /\ remote' = remote
        /\ local'[head] = index
        /\ \A b \in Local \ {head} : local'[b] = local[b]
        /\ head \notin mixed' => j \notin disturbed /\ head \notin mixed
    BY <1>5, <1>2 DEF Commit, Local, server
  <2>3. ASSUME j \notin disturbed
        PROVE  /\ head = PlanOf[j]
               /\ \A f \in Files : index[f] = IF f \in FilesOf[j] THEN j
                                              ELSE local[head][f]
    BY <1>2, <2>1, <2>3 DEF JobAt
  <2>4. head \notin mixed' => Inherited(local[head], head)
    BY <1>2, <2>2
  <2>5. head \notin mixed' => Inherited(index, head)
    BY <1>2, <2>2, <2>3, <2>4 DEF Inherited
  <2>6. \A b \in Local' \ mixed' : Inherited(local[b], b)'
    <3> SUFFICES ASSUME NEW b \in Local \ mixed' PROVE Inherited(local[b], b)'
      BY <2>2
    <3>1. CASE b = head
      <4>1. local'[b] = index /\ Inherited(index, b)
        BY <2>2, <2>5, <3>1
      <4> QED BY <1>1, <4>1 DEF Inherited
    <3>2. CASE b # head
      <4>1. local'[b] = local[b] /\ Inherited(local[b], b)
        BY <1>1, <1>2, <2>2, <3>2
      <4> QED BY <1>1, <4>1 DEF Inherited
    <3> QED BY <3>1, <3>2
  <2>7. /\ \A b \in Remote' \ ({Main} \cup mixed') : Inherited(remote[b], b)'
        /\ Inherited(remote[Main], Main)'
    BY <1>1, <1>2, <2>2 DEF Inherited, Remote
  <2>8. j \notin disturbed => JobAt(j)'
    BY <1>2, <2>1, <2>2, <2>3 DEF JobAt
  <2> QED BY <1>s, <1>1, <2>1, <2>6, <2>7, <2>8, JobStep DEF Branched
<1>6. CASE Push(j)
  <2>1. /\ pc[j] = "push" /\ pc'[j] = "pr"
        /\ \A k \in Jobs \ {j} : pc'[k] = pc[k]
    BY <1>6, <1>s, GotoType DEF Push
  <2>2. PlanOf[j] \in Local
    BY <1>6 DEF Push
  <2>3. /\ DOMAIN remote' = DOMAIN remote \cup {PlanOf[j]}
        /\ \A b \in DOMAIN remote' :
             remote'[b] = IF b = PlanOf[j] THEN local[PlanOf[j]] ELSE remote[b]
        /\ UNCHANGED <<local, mixed>>
    BY <1>6 DEF Push, Put, repo, history
  <2>4. /\ \A b \in Remote' \ ({Main} \cup mixed') : Inherited(remote[b], b)'
        /\ Inherited(remote[Main], Main)'
    <3>1. Main \in DOMAIN remote' /\ remote'[Main] = remote[Main]
      BY <1>2, <2>3 DEF TypeInv, TypeOK, Remote
    <3>2. ASSUME NEW b \in Remote' \ ({Main} \cup mixed')
          PROVE  Inherited(remote'[b], b)
      BY <1>2, <2>2, <2>3 DEF Remote
    <3> QED BY <1>1, <1>2, <3>1, <3>2 DEF Inherited
  <2>5. \A b \in Local' \ mixed' : Inherited(local[b], b)'
    BY <1>1, <1>2, <2>3 DEF Inherited, Local
  <2>6. remote'[PlanOf[j]] = local[PlanOf[j]]
    BY <2>3
  <2>7. j \notin disturbed => JobAt(j)'
    BY <1>2, <2>1, <2>6 DEF JobAt
  <2> QED BY <1>s, <1>1, <2>1, <2>4, <2>5, <2>7, JobStep DEF Branched
<1>7. CASE OpenPr(j) \/ GitRaises(j)
  <2>1. /\ pc[j] \in Steps /\ pc'[j] \in {"done", "failed"}
        /\ \A k \in Jobs \ {j} : pc'[k] = pc[k]
    BY <1>7, <1>s, GotoType DEF OpenPr, GitRaises, TypeInv, TypeOK
  <2>2. UNCHANGED <<local, remote, mixed>>
    BY <1>7 DEF OpenPr, GitRaises, repo, server, history
  <2>3. Branched'
    BY <1>1, <1>2, <2>2 DEF Branched, Local, Remote, Inherited
  <2>4. JobAt(j)'
    BY <2>1 DEF JobAt
  <2> QED BY <1>1, <2>1, <2>3, <2>4, JobStep
<1> QED BY <1>3, <1>4, <1>5, <1>6, <1>7

(* A merge gives main only what a branch has; a crash ends every job.       *)
LEMMA EnvironmentKeepsTree ==
  ASSUME TypeInv, TreeInv, Crash \/ \E p \in Plans : Merge(p)
  PROVE  TreeInv'
<1>1. CASE Crash
  <2>1. \A k \in Jobs : pc'[k] \notin Steps
    BY <1>1 DEF Crash, Steps
  <2>2. Overlap' /\ \A k \in Jobs : JobAt(k)'
    BY <2>1 DEF Overlap, JobAt, Steps
  <2>3. Branched'
    BY <1>1 DEF Crash, TreeInv, Branched, Inherited, Local, Remote, repo, server,
                history
  <2> QED BY <2>2, <2>3 DEF TreeInv
<1>2. CASE \E p \in Plans : Merge(p)
  <2>1. PICK p \in Plans : Merge(p)
    BY <1>2
  <2> DEFINE changed == {f \in Files : remote[p][f] \notin onMain[f] \cup {Nothing}}
             merged == [f \in Files |-> IF f \in changed THEN remote[p][f]
                                        ELSE remote[Main][f]]
  <2>2. /\ remote' = [remote EXCEPT ![Main] = merged]
        /\ onMain' = [f \in Files |-> IF f \in changed
                                      THEN onMain[f] \cup {remote[p][f]}
                                      ELSE onMain[f]]
        /\ UNCHANGED <<repo, pc, disturbed, mixed>>
    BY <2>1 DEF Merge, history
  <2>3. /\ \A b \in Local \ mixed : Inherited(local[b], b)
        /\ \A b \in Remote \ ({Main} \cup mixed) : Inherited(remote[b], b)
        /\ Inherited(remote[Main], Main)
        /\ Main \in Remote /\ \A f \in Files : DirOf[f] # Main
    BY WorktreeAssumption DEF TreeInv, Branched, TypeInv, TypeOK
  <2>4. \A f \in Files : onMain[f] \subseteq onMain'[f]
    BY <2>2
  <2>5. \A f \in Files : merged[f] \in onMain'[f] \cup {Nothing}
    BY <2>2, <2>3 DEF Inherited
  <2> HIDE DEF changed, merged
  <2>6. /\ Remote' = Remote
        /\ remote'[Main] = merged
        /\ \A b \in Remote \ {Main} : remote'[b] = remote[b]
    BY <2>2, <2>3 DEF Remote
  <2>7. /\ \A b \in Remote' \ ({Main} \cup mixed') : Inherited(remote[b], b)'
        /\ Inherited(remote[Main], Main)'
    BY <2>2, <2>3, <2>4, <2>5, <2>6 DEF Inherited
  <2>8. \A b \in Local' \ mixed' : Inherited(local[b], b)'
    BY <2>2, <2>3, <2>4 DEF Inherited, Local, repo
  <2>9. \A k \in Jobs \ disturbed' : JobAt(k)'
    <3> SUFFICES ASSUME NEW k \in Jobs \ disturbed PROVE JobAt(k)'
      BY <2>2
    <3>1. /\ JobAt(k) /\ PlanOf[k] # Main
          /\ pc[k] = "pr" => PlanOf[k] \in Remote
      BY WorktreeAssumption DEF TreeInv, TypeInv
    <3>2. pc[k] = "pr" => remote'[PlanOf[k]] = remote[PlanOf[k]]
      BY <2>6, <3>1
    <3> QED BY <2>2, <3>1, <3>2 DEF JobAt, repo
  <2>10. Overlap'
    BY <2>2 DEF TreeInv, Overlap
  <2> QED BY <2>7, <2>8, <2>9, <2>10 DEF TreeInv, Branched
<1> QED BY <1>1, <1>2

(* The trees.                                                               *)
LEMMA TreeInvariant == Spec => []TreeInv
<1>1. TypeInv /\ TreeInv /\ [Next]_vars => TreeInv'
  <2> SUFFICES ASSUME TypeInv, TreeInv, [Next]_vars PROVE TreeInv'
    OBVIOUS
  <2>1. CASE UNCHANGED vars
    BY <2>1 DEF vars, repo, server, history, TreeInv, Overlap, Branched, JobAt,
                Inherited, Local, Remote
  <2> QED
    BY <2>1, StartKeepsTree, EnsureKeepsTree, BranchKeepsTree,
       PublishKeepsTree, EnvironmentKeepsTree DEF Next, Work
<1> QED BY <1>1, InitTreeInv, TypeInvariant, PTL DEF Spec

(* A job that has the working tree to itself pushes its packages to the     *)
(* branch of its plan (push_to_gitops, workflow steps 2 to 4), whatever     *)
(* earlier runs that overlapped, failed or crashed left behind, for any     *)
(* number of workers and even if plans share a name.                        *)
THEOREM OwnPackagesTheorem == Spec => []OwnPackages
<1>1. TreeInv => OwnPackages
  BY DEF TreeInv, JobAt, OwnPackages
<1> QED BY <1>1, TreeInvariant, PTL

(* A branch no overlapping jobs had a hand in proposes its own plan only:   *)
(* "Discard ALL leftover state from previous pipeline runs" is what         *)
(* _ensure_repo achieves, for any number of workers, crashes and failures,  *)
(* whatever overlapping jobs do to the other branches.                      *)
THEOREM NothingElseTheorem == Spec => []NothingElse
<1>1. TreeInv => NothingElse
  BY DEF TreeInv, Branched, Inherited, NothingElse
<1> QED BY <1>1, TreeInvariant, PTL
====
