------------------------------ MODULE GitWorktree ------------------------------
(***************************************************************************)
(* push_to_gitops of gitops/git_ops.py: every pipeline worker clones or    *)
(* refreshes ONE working tree (WORK_DIR), creates the branch of its plan,  *)
(* copies its packages in, commits, force-pushes the branch and opens a    *)
(* pull request.  There is no lock around it.                              *)
(*                                                                         *)
(* One action per git command: git's own index.lock makes a command atomic *)
(* for other commands.  A tree says for every file below                   *)
(* packages/instances which job wrote it, or Nothing.  Jobs with the same  *)
(* plan id write into one directory, some files under the same name.       *)
(***************************************************************************)
EXTENDS Naturals, FiniteSets

CONSTANTS
  Jobs,         \* pipeline runs that reach the git step
  Plans,        \* plan intentIds; branch intent/<plan> and the package directory
  PlanOf,       \* [Jobs -> Plans]
  Files,        \* files of packages
  DirOf,        \* [Files -> Plans]: the directory packages/instances/<plan> of a file
  FilesOf,      \* [Jobs -> SUBSET Files]: the packages a job generated
  Workers,      \* how many pipelines may be in push_to_gitops at a time
  MaxCrashes,   \* bound: how often the process dies
  Nothing       \* no packages

Main == "main"
Branches == Plans \cup {Main}

ASSUME WorktreeAssumption ==
  /\ PlanOf \in [Jobs -> Plans]
  /\ DirOf \in [Files -> Plans]
  /\ FilesOf \in [Jobs -> SUBSET Files]
  /\ \A j \in Jobs : \A f \in FilesOf[j] : DirOf[f] = PlanOf[j]
  /\ Workers \in Nat \ {0}
  /\ MaxCrashes \in Nat
  /\ Nothing \notin Jobs
  /\ Main \notin Plans

VARIABLES
  cloned,    \* WORK_DIR holds a clone
  head,      \* the branch that is checked out
  local,     \* local[b]: tree of the tip of local branch b, for existing branches
  index,     \* the staged tree
  files,     \* the tree of the working directory
  remote,    \* trees of the branches on the Git server
  onMain,    \* onMain[f]: jobs whose version of file f main ever had
  prs,       \* plans whose pull request is open
  pc,        \* where each job is in push_to_gitops
  crashes,
  disturbed, \* history: jobs that shared the working tree with another job
  mixed      \* history: branches committed to or made by a disturbed job, and those
             \* made from such a branch

repo == <<cloned, head, local, index, files>>
server == <<remote, onMain>>
history == <<disturbed, mixed>>
vars == <<repo, server, prs, pc, crashes, history>>

Empty == [f \in Files |-> Nothing]
Steps == {"ensure", "clean", "main", "pull", "branch", "newmain", "newbranch", "copy",
          "add", "commit", "push", "pr"}

\* The local and the remote branches that exist.
Local  == {b \in Branches : b \in DOMAIN local}
Remote == {b \in Branches : b \in DOMAIN remote}
Put(f, b, tree) == [x \in DOMAIN f \cup {b} |-> IF x = b THEN tree ELSE f[x]]

Init ==
  /\ cloned = FALSE
  /\ head = Main
  /\ local = [b \in {Main} |-> Empty]
  /\ index = Empty
  /\ files = Empty
  /\ remote = [b \in {Main} |-> Empty]
  /\ onMain = [f \in Files |-> {}]
  /\ prs = {}
  /\ pc = [j \in Jobs |-> "idle"]
  /\ crashes = 0
  /\ disturbed = {}
  /\ mixed = {}

Goto(j, from, to) == pc[j] = from /\ pc' = [pc EXCEPT ![j] = to]

-----------------------------------------------------------------------------
(* _ensure_repo.                                                           *)

\* The tree a forced switch to `tree' leaves in the working directory: what git tracks
\* now or in the target becomes the target's; untracked files stay.
Forced(tree) ==
  [f \in Files |-> IF index[f] # Nothing \/ tree[f] # Nothing THEN tree[f] ELSE files[f]]

\* A worker calls push_to_gitops.
Inside == {k \in Jobs : pc[k] \in Steps}
Start(j) ==
  /\ Goto(j, "idle", "ensure")
  /\ Cardinality(Inside) < Workers
  /\ disturbed' = IF Inside = {} THEN disturbed ELSE disturbed \cup Inside \cup {j}
  /\ UNCHANGED <<repo, server, prs, crashes, mixed>>

\* No clone yet: clone, which checks out main.
Clone(j) ==
  /\ ~cloned
  /\ Goto(j, "ensure", "branch")
  /\ cloned' = TRUE
  /\ head' = Main
  /\ local' = [b \in {Main} |-> remote[Main]]
  /\ index' = remote[Main]
  /\ files' = remote[Main]
  /\ UNCHANGED <<server, prs, crashes, history>>
\* Mutant of Reset: an existing clone is used as it is.
ResetNothing(j) ==
  /\ cloned
  /\ Goto(j, "ensure", "branch")
  /\ UNCHANGED <<repo, server, prs, crashes, history>>

\* git reset --hard HEAD
Reset(j) ==
  /\ cloned
  /\ Goto(j, "ensure", "clean")
  /\ index' = local[head]
  /\ files' = Forced(local[head])
  /\ UNCHANGED <<cloned, head, local, server, prs, crashes, history>>

\* git clean -fd
Clean(j) ==
  /\ Goto(j, "clean", "main")
  /\ files' = [f \in Files |-> IF index[f] = Nothing THEN Nothing ELSE files[f]]
  /\ UNCHANGED <<cloned, head, local, index, server, prs, crashes, history>>

\* git checkout -f main
CheckoutMain(j) ==
  /\ Goto(j, "main", "pull")
  /\ head' = Main
  /\ index' = local[Main]
  /\ files' = Forced(local[Main])
  /\ UNCHANGED <<cloned, local, server, prs, crashes, history>>

\* git pull: only main has an upstream; elsewhere the command fails (GitRaises).  It
\* takes over main of the server and keeps what was committed to the local main only;
\* where git refuses to reconcile the two, it fails.
Pulled ==
  [f \in Files |-> IF local[Main][f] \in onMain[f] \cup {Nothing} THEN remote[Main][f]
                  ELSE local[Main][f]]
Pull(j) ==
  /\ head = Main
  /\ Goto(j, "pull", "branch")
  /\ local' = [local EXCEPT ![Main] = Pulled]
  /\ index' = [f \in Files |-> IF index[f] = local[Main][f] THEN Pulled[f] ELSE index[f]]
  /\ files' = [f \in Files |-> IF files[f] = local[Main][f] THEN Pulled[f] ELSE files[f]]
  /\ UNCHANGED <<cloned, head, server, prs, crashes, history>>

-----------------------------------------------------------------------------
(* _create_branch.                                                         *)

\* git checkout b without -f succeeds if no file that differs between the two tips
\* has local changes, and keeps the other local changes.
CanSwitch(b) ==
  \A f \in Files : \/ local[head][f] = local[b][f]
                   \/ index[f] = local[head][f] /\ files[f] = index[f]
Switched(tree, b) ==
  [f \in Files |-> IF local[head][f] = local[b][f] THEN tree[f] ELSE local[b][f]]
Switch(b) ==
  /\ CanSwitch(b)
  /\ head' = b
  /\ index' = Switched(index, b)
  /\ files' = Switched(files, b)

\* The branch exists: check it out as it is.
CheckoutBranch(j) ==
  /\ PlanOf[j] \in Local
  /\ Goto(j, "branch", "copy")
  /\ Switch(PlanOf[j])
  /\ UNCHANGED <<cloned, local, server, prs, crashes, history>>

\* It does not: git checkout main, then git checkout -b.
NoBranch(j) ==
  /\ PlanOf[j] \notin Local
  /\ Goto(j, "branch", "newmain")
  /\ UNCHANGED <<repo, server, prs, crashes, history>>

SwitchToMain(j) ==
  /\ Goto(j, "newmain", "newbranch")
  /\ Switch(Main)
  /\ UNCHANGED <<cloned, local, server, prs, crashes, history>>

NewBranch(j) ==
  /\ PlanOf[j] \notin Local
  /\ Goto(j, "newbranch", "copy")
  /\ local' = Put(local, PlanOf[j], local[head])
  /\ head' = PlanOf[j]
  /\ mixed' = IF j \in disturbed \/ head \in mixed THEN mixed \cup {PlanOf[j]} ELSE mixed
  /\ UNCHANGED <<cloned, index, files, server, prs, crashes, disturbed>>

-----------------------------------------------------------------------------
(* _copy_packages, _commit_and_push, _open_pr.                             *)

\* The directory of the plan is removed and the packages are copied there.
CopyPackages(j) ==
  /\ Goto(j, "copy", "add")
  /\ files' = [f \in Files |-> CASE f \in FilesOf[j] -> j
                                [] DirOf[f] = PlanOf[j] /\ f \notin FilesOf[j] -> Nothing
                                [] OTHER -> files[f]]
  /\ UNCHANGED <<cloned, head, local, index, server, prs, crashes, history>>
\* Mutant of Add: the copied files are not staged.
AddNothing(j) ==
  /\ \A f \in FilesOf[j] : files[f] # Nothing
  /\ Goto(j, "add", "commit")
  /\ UNCHANGED <<repo, server, prs, crashes, history>>

\* repo.index.add of the copied files, with what they hold by then; it raises when one
\* is gone (GitRaises).  The removal of other files of the directory is not staged.
Add(j) ==
  /\ \A f \in FilesOf[j] : files[f] # Nothing
  /\ Goto(j, "add", "commit")
  /\ index' = [f \in Files |-> IF f \in FilesOf[j] THEN files[f] ELSE index[f]]
  /\ UNCHANGED <<cloned, head, local, files, server, prs, crashes, history>>

\* repo.index.commit: the index becomes the tip of whatever branch HEAD is on.
Commit(j) ==
  /\ Goto(j, "commit", "push")
  /\ local' = [local EXCEPT ![head] = index]
  /\ mixed' = IF j \in disturbed THEN mixed \cup {head} ELSE mixed
  /\ UNCHANGED <<cloned, head, index, files, server, prs, crashes, disturbed>>

\* git push --force origin <branch of the plan>
Push(j) ==
  /\ PlanOf[j] \in Local
  /\ Goto(j, "push", "pr")
  /\ remote' = Put(remote, PlanOf[j], local[PlanOf[j]])
  /\ UNCHANGED <<repo, onMain, prs, crashes, history>>

\* _open_pr: opened, already open (409), or failed, which is only logged.
OpenPr(j) ==
  /\ Goto(j, "pr", "done")
  /\ prs' \in {prs, prs \cup {PlanOf[j]}}
  /\ UNCHANGED <<repo, server, crashes, history>>

\* A command fails; the job fails and leaves the working tree as it is.
GitRaises(j) ==
  /\ pc[j] \in Steps \ {"pr"}
  /\ pc' = [pc EXCEPT ![j] = "failed"]
  /\ UNCHANGED <<repo, server, prs, crashes, history>>

-----------------------------------------------------------------------------
(* The environment.                                                        *)

\* A reviewer merges a pull request: what the branch changed goes to main.
Merge(p) ==
  /\ p \in prs
  /\ prs' = prs \ {p}
  /\ LET changed == {f \in Files : remote[p][f] \notin onMain[f] \cup {Nothing}}
     IN  /\ remote' = [remote EXCEPT ![Main] =
                         [f \in Files |-> IF f \in changed THEN remote[p][f] ELSE @[f]]]
         /\ onMain' = [f \in Files |-> IF f \in changed THEN onMain[f] \cup {remote[p][f]}
                                      ELSE onMain[f]]
  /\ UNCHANGED <<repo, pc, crashes, history>>

\* The process dies in the middle; the directory stays as it is.
Crash ==
  /\ crashes < MaxCrashes
  /\ \E j \in Jobs : pc[j] \in Steps
  /\ crashes' = crashes + 1
  /\ pc' = [j \in Jobs |-> IF pc[j] \in Steps THEN "failed" ELSE pc[j]]
  /\ UNCHANGED <<repo, server, prs, history>>

Work(j) ==
  \/ Start(j) \/ Clone(j) \/ Reset(j) \/ Clean(j) \/ CheckoutMain(j) \/ Pull(j)
  \/ CheckoutBranch(j) \/ NoBranch(j) \/ SwitchToMain(j) \/ NewBranch(j)
  \/ CopyPackages(j) \/ Add(j) \/ Commit(j) \/ Push(j) \/ OpenPr(j) \/ GitRaises(j)

Next ==
  \/ \E j \in Jobs : Work(j)
  \/ \E p \in Plans : Merge(p)
  \/ Crash

Spec == Init /\ [][Next]_vars

-----------------------------------------------------------------------------
(* Properties.                                                             *)

\* Type correctness of the shared clone and of the Git server as git_ops.py uses them.
Trees == [Files -> Jobs \cup {Nothing}]
TypeOK ==
  /\ cloned \in BOOLEAN
  /\ head \in Local
  /\ Main \in Local /\ DOMAIN local \subseteq Branches
  /\ \A b \in Local : local[b] \in Trees
  /\ index \in Trees
  /\ files \in Trees
  /\ Main \in Remote /\ DOMAIN remote \subseteq Branches
  /\ \A b \in Remote : remote[b] \in Trees
  /\ onMain \in [Files -> SUBSET Jobs]
  /\ prs \subseteq Remote \ {Main}
  /\ pc \in [Jobs -> Steps \cup {"idle", "done", "failed"}]
  /\ crashes \in 0..MaxCrashes
  /\ disturbed \subseteq Jobs
  /\ mixed \subseteq Branches

\* When the push of a job that had the working tree to itself has succeeded, all its
\* packages are on the branch of its plan (push_to_gitops, workflow steps 2 to 4),
\* whatever jobs that overlapped, failed or crashed before it left in the working tree,
\* in the index or on the local branches.
OwnPackages ==
  \A j \in Jobs \ disturbed : pc[j] = "pr" => \A f \in FilesOf[j] : remote[PlanOf[j]][f] = j

\* A branch that no two overlapping jobs had a hand in carries the packages of its plan
\* and otherwise only what was on main, so its pull request proposes one intent only,
\* whatever earlier runs left behind ("Discard ALL leftover state from previous pipeline
\* runs") and whatever overlapping jobs do to other branches.
NothingElse ==
  \A b \in Remote \ ({Main} \cup mixed) : \A f \in Files :
    DirOf[f] # b => remote[b][f] \in onMain[f] \cup {Nothing}
================================================================================
