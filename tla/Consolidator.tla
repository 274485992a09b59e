----------------------------- MODULE Consolidator -----------------------------
(***************************************************************************)
(* Consolidator.run of src/core/consolidator.ts: the worktrees that         *)
(* succeeded according to state.json are merged into a new branch, and an   *)
(* exit code tells how far that went.                                       *)
(*                                                                         *)
(* git is external and may end as it likes: with 0, with an error, killed   *)
(* by a signal, which spawn of src/lib/spawn.ts reports as 0, or not start  *)
(* at all, which throws.                                                    *)
(***************************************************************************)
EXTENDS RunLedger, Integers, FiniteSets

CONSTANTS
  Lane,    \* numbers of worktree directories
  Stored   \* contents of state.json: sets of tasks [id, status, nums], nums being
           \* the lane numbers that occur in the identifier of the task

ASSUME ConsolidatorAssumption ==
  /\ Lane \subseteq Nat
  /\ \A s \in Stored : IsFiniteSet(s)

VARIABLES
  cpc,         \* where run is
  dirs,        \* directories under .apohara/worktrees
  successful, failed,
  todo,        \* lanes mergeSuccessfulWorktrees has still to look at
  merged,      \* lanes whose merge succeeded
  allMerged,
  merging,     \* the index has unmerged entries: a conflict is open
  signalled,   \* history: a git process whose exit code counts was killed by a signal
  head,        \* branch that is checked out
  exitCode

consolidatorState == <<cpc, dirs, successful, failed, todo, merged, allMerged,
                       signalled, head, exitCode>>
consolidatorVars == <<consolidatorState, merging>>

ConsolidatorTypeOK ==
  /\ cpc \in {"idle", "start", "load", "branch", "pull", "newBranch", "merge", "summary",
              "exit", "done", "threw"}
  /\ dirs \subseteq Lane
  /\ successful \subseteq Nat /\ failed \subseteq Nat
  /\ todo \subseteq successful
  /\ merged \subseteq Lane
  /\ allMerged \in BOOLEAN /\ merging \in BOOLEAN /\ signalled \in BOOLEAN
  /\ head \in {"user", "main", "run"}
  /\ exitCode \in {0, 1, 2, 3}

\* exitCode is 3 until run has computed it.  An earlier run, or the user, may have
\* left a conflict open.
ConsolidatorInit ==
  /\ cpc = "idle"
  /\ dirs = {}
  /\ successful = {} /\ failed = {}
  /\ todo = {}
  /\ merged = {}
  /\ allMerged = FALSE /\ signalled = FALSE
  /\ merging \in BOOLEAN
  /\ head = "user"
  /\ exitCode = 3

\* An entry of the ledger ends a step; a rejected append ends run.
LogThen(type, next) ==
  \/ Logged(type) /\ cpc' = next
  \/ LogRejected /\ cpc' = "threw"

StartConsolidation ==
  /\ cpc = "start"
  /\ LogThen("consolidation_started", "load")
  /\ UNCHANGED <<dirs, successful, failed, todo, merged, allMerged, merging, signalled, head, exitCode>>

-----------------------------------------------------------------------------
(***************************************************************************)
(* analyzeTaskResults.                                                     *)
(***************************************************************************)
Completed(s) == {t \in s : t.status = "completed"}
FailedIn(s)  == {t \in s : t.status = "failed"}

\* A lane is successful when its number occurs in the identifier of a completed
\* task, or when all tasks are completed.  Without directories there is one
\* pseudo lane per completed and per failed task.
SuccessfulLanes(d, s) ==
  IF d = {} THEN 0 .. Cardinality(Completed(s)) - 1
  ELSE {l \in d : \/ \E t \in Completed(s) : l \in t.nums
                  \/ s # {} /\ Completed(s) = s}

FailedLanes(d, s) ==
  IF d = {} THEN LET n == Cardinality(Completed(s)) IN n .. n + Cardinality(FailedIn(s)) - 1
  ELSE IF FailedIn(s) = {} THEN {} ELSE d \ SuccessfulLanes(d, s)

\* loadState reads whatever state.json holds; nothing in the run has written it.
\* A document without tasks makes the search in it throw.
analyzeTaskResults ==
  /\ cpc = "load"
  /\ \/ /\ \E s \in Stored, d \in SUBSET Lane :
            /\ dirs' = d
            /\ successful' = SuccessfulLanes(d, s)
            /\ failed' = FailedLanes(d, s)
        /\ cpc' = "branch"
     \/ cpc' = "threw" /\ UNCHANGED <<dirs, successful, failed>>
  /\ UNCHANGED <<todo, merged, allMerged, merging, signalled, head, exitCode, ledgerVars>>

-----------------------------------------------------------------------------
(***************************************************************************)
(* createBranch and mergeSuccessfulWorktrees.                              *)
(***************************************************************************)

\* git() rejects when the process cannot be started, and run with it.
GitCannotStart ==
  /\ cpc \in {"branch", "pull", "newBranch"} \/ (cpc = "merge" /\ todo \cap dirs # {})
  /\ cpc' = "threw"
  /\ UNCHANGED <<dirs, successful, failed, todo, merged, allMerged, merging, signalled,
                 head, exitCode, ledgerVars>>

\* git leaves a branch only when no conflict is open.
CheckoutMain ==
  /\ cpc = "branch"
  /\ \/ ~merging /\ head' = "main" /\ UNCHANGED signalled
     \/ head' \in {head, "main"} /\ signalled' = TRUE
  /\ cpc' = "pull"
  /\ UNCHANGED <<dirs, successful, failed, todo, merged, allMerged, merging, exitCode, ledgerVars>>

\* The result of the pull is ignored; it may leave a conflict.
Pull ==
  /\ cpc = "pull"
  /\ merging' \in {merging, TRUE}
  /\ cpc' = "newBranch"
  /\ UNCHANGED <<dirs, successful, failed, todo, merged, allMerged, signalled, head, exitCode, ledgerVars>>

\* A branch is made from what is checked out, also in the middle of a conflict, or
\* an existing one is checked out.
CheckoutBranch ==
  /\ cpc = "newBranch"
  /\ \/ head' = "run" /\ UNCHANGED signalled
     \/ head' \in {head, "run"} /\ signalled' = TRUE
  /\ todo' = successful
  /\ allMerged' = (successful # {})
  /\ LogThen("branch_created", "merge")
  /\ UNCHANGED <<dirs, successful, failed, merged, merging, exitCode>>

\* One of the two checkouts fails.
BranchFails ==
  /\ cpc \in {"branch", "newBranch"}
  /\ \/ Logged("branch_creation_failed") /\ cpc' = "done" /\ exitCode' = 1
     \/ LogRejected /\ cpc' = "threw" /\ UNCHANGED exitCode
  /\ UNCHANGED <<dirs, successful, failed, todo, merged, allMerged, merging, signalled, head>>

\* A lane without a directory is skipped.
SkipMissing(l) ==
  /\ cpc = "merge" /\ l \in todo \ dirs
  /\ todo' = todo \ {l}
  /\ UNCHANGED <<cpc, dirs, successful, failed, merged, allMerged, merging, signalled, head, exitCode, ledgerVars>>

\* git merges only when no conflict is open.  Its argument is the path of the
\* worktree; whether it knows a commit by that name is its affair.
MergeLane(l) ==
  /\ cpc = "merge" /\ l \in todo \cap dirs /\ ~merging
  /\ todo' = todo \ {l}
  /\ merged' = merged \cup {l}
  /\ LogThen("worktree_merged", "merge")
  /\ UNCHANGED <<dirs, successful, failed, allMerged, merging, signalled, head, exitCode>>

\* A merge killed by a signal is logged as one that was made, wherever it had come to.
MergeKilled(l) ==
  /\ cpc = "merge" /\ l \in todo \cap dirs
  /\ todo' = todo \ {l}
  /\ merged' \in IF merging THEN {merged} ELSE {merged, merged \cup {l}}
  /\ merging' \in {merging, TRUE}
  /\ signalled' = TRUE
  /\ LogThen("worktree_merged", "merge")
  /\ UNCHANGED <<dirs, successful, failed, allMerged, head, exitCode>>

\* Mutant: a conflict is logged and forgotten.
MergeConflictForgotten(l) ==
  /\ cpc = "merge" /\ l \in todo \cap dirs
  /\ todo' = todo \ {l}
  /\ merging' \in {merging, TRUE}
  /\ LogThen("merge_conflict", "merge")
  /\ UNCHANGED <<dirs, successful, failed, merged, allMerged, signalled, head, exitCode>>

\* A conflict is left as it is, so every later merge fails; another error
\* (no commit of that name) leaves the repository as it was.
MergeConflict(l) ==
  /\ cpc = "merge" /\ l \in todo \cap dirs
  /\ todo' = todo \ {l}
  /\ allMerged' = FALSE
  /\ merging' \in {merging, TRUE}
  /\ LogThen("merge_conflict", "merge")
  /\ UNCHANGED <<dirs, successful, failed, merged, signalled, head, exitCode>>

MergesDone ==
  /\ cpc = "merge" /\ todo = {}
  /\ cpc' = "summary"
  /\ UNCHANGED <<dirs, successful, failed, todo, merged, allMerged, merging, signalled, head, exitCode, ledgerVars>>

\* generateSummary writes summary.md and logs it; either may fail.
generateSummary ==
  /\ cpc = "summary"
  /\ \/ LogThen("summary_generated", "exit")
     \/ cpc' = "threw" /\ UNCHANGED ledgerVars
  /\ UNCHANGED <<dirs, successful, failed, todo, merged, allMerged, merging, signalled, head, exitCode>>

\* Mutant: the number of failed lanes.
ExitCodeCount ==
  IF allMerged THEN Cardinality(failed) ELSE -1

calculateExitCode ==
  IF ~allMerged /\ successful = {} THEN 1
  ELSE IF failed # {} \/ ~allMerged THEN 2 ELSE 0

FinishConsolidation ==
  /\ cpc = "exit"
  /\ exitCode' = calculateExitCode
  /\ LogThen("consolidation_completed", "done")
  /\ UNCHANGED <<dirs, successful, failed, todo, merged, allMerged, merging, signalled, head>>

ConsolidatorStep ==
  \/ StartConsolidation \/ analyzeTaskResults \/ GitCannotStart
  \/ CheckoutMain \/ Pull \/ CheckoutBranch \/ BranchFails
  \/ \E l \in todo : SkipMissing(l) \/ MergeLane(l) \/ MergeKilled(l) \/ MergeConflict(l)
  \/ MergesDone \/ generateSummary \/ FinishConsolidation

\* run waits for a git process; nothing limits the time it takes.
AwaitsGit ==
  \/ cpc \in {"branch", "pull", "newBranch"}
  \/ cpc = "merge" /\ todo \cap dirs # {}

-----------------------------------------------------------------------------
\* What the exit code says of the repository, whatever conflict was open before or
\* came with the pull, unless a git process was killed by a signal and counted as
\* having done its work (spawn.ts:91).  After 0 no lane counts as failed, every lane
\* that counts as successful and is there has been merged into the run's branch,
\* and no conflict is open if there was one to merge; after 1 nothing was merged;
\* after 2 the branch exists, and a lane failed or one that counts as successful
\* was left out.  A lane that counts as neither is not looked at: that 0 means
\* "All worktrees succeeded" (consolidator.ts:371) is not so.
ExitCodeMatchesRepository ==
  cpc = "done" =>
    /\ exitCode = 0 =>
         /\ failed = {} /\ successful # {}
         /\ signalled \/ (head = "run" /\ merged = successful \cap dirs /\ (merged # {} => ~merging))
    /\ exitCode = 1 => merged = {}
    /\ exitCode = 2 =>
         /\ successful # {}
         /\ failed # {} \/ ~(successful \cap dirs \subseteq merged)
         /\ signalled \/ head = "run"
=============================================================================
