----------------------------- MODULE AutoPipeline -----------------------------
(***************************************************************************)
(* The action of `apohara auto` in src/commands/auto.ts: decompose, execute,*)
(* test and commit (--improve-self), consolidate, lint, skip the pull       *)
(* request, summarise.  It composes TaskDecomposer, Sandbox, Consolidator   *)
(* and the ledger of the run; SubagentManager has the execution.            *)
(*                                                                         *)
(* Every await may throw; the catch block logs auto_command_failed and      *)
(* exits with 1.  The answers of the outside world (tests, git, biome) are  *)
(* arbitrary.                                                               *)
(***************************************************************************)
EXTENDS TaskDecomposer, Consolidator, Sandbox

VARIABLES
  stage,          \* where the action is
  improveSelf,    \* option --improve-self
  at,             \* the task runImproveSelf is at
  sandboxResult,  \* outcome of its tests, until the next task
  dirty,          \* tracked files of the working tree are modified
  commits,        \* what really became of the tests that commits were made for
  exit            \* exit code of the process, 9 while it runs

pipeVars == <<stage, improveSelf, at, sandboxResult, dirty, commits, exit>>
vars == <<pipeVars, decomposerVars, consolidatorVars, ledgerVars>>

TestVerdict == {"passed", "killed", "failed", "not run"}

\* No tests have run yet.
NoTests == [code |-> "red", started |-> FALSE, tests |-> "not run"]

TypeOK ==
  /\ stage \in {"load", "decompose", "execute", "test", "commit", "report", "consolidate",
                "lint", "pr", "summary", "finish", "catch", "end"}
  /\ improveSelf \in BOOLEAN
  /\ at \in Nat
  /\ sandboxResult \in Outcomes \cup {NoTests}
  /\ dirty \in BOOLEAN
  /\ commits \subseteq TestVerdict
  /\ exit \in {0, 1, 9}
  /\ DecomposerTypeOK /\ ConsolidatorTypeOK

Init ==
  /\ stage = "load"
  /\ improveSelf \in BOOLEAN
  /\ at = 1
  /\ sandboxResult = NoTests
  /\ commits = {}
  /\ exit = 9
  /\ DecomposerInit /\ ConsolidatorInit /\ LedgerInit
  /\ dirty \in BOOLEAN /\ (merging => dirty)

\* An entry of the run's ledger ends a stage; a rejected append is caught.
LogTo(type, next) ==
  \/ Logged(type) /\ stage' = next
  \/ LogRejected /\ stage' = "catch"

Throws == stage' = "catch" /\ UNCHANGED ledgerVars

-----------------------------------------------------------------------------
\* The state is loaded (errors give an empty one) and the start is logged.
Load ==
  /\ stage = "load"
  /\ LogTo("auto_command_started", "decompose")
  /\ UNCHANGED <<improveSelf, at, sandboxResult, dirty, commits, exit,
                 decomposerVars, consolidatorVars>>

Decompose ==
  /\ stage = "decompose"
  /\ DecomposerStep \/ ClientImported
  /\ UNCHANGED <<pipeVars, consolidatorVars, ledgerVars>>

\* A failure is logged and ends the process; when it cannot be logged the
\* outer catch block has its turn.
DecompositionFailed ==
  /\ stage = "decompose" /\ dpc = "failed"
  /\ \/ Logged("auto_command_failed") /\ stage' = "end" /\ exit' = 1
     \/ LogRejected /\ stage' = "catch" /\ UNCHANGED exit
  /\ UNCHANGED <<improveSelf, at, sandboxResult, dirty, commits,
                 decomposerVars, consolidatorVars>>

DecompositionCompleted ==
  /\ stage = "decompose" /\ dpc = "accepted"
  /\ LogTo("decomposition_completed", "execute")
  /\ UNCHANGED <<improveSelf, at, sandboxResult, dirty, commits, exit,
                 decomposerVars, consolidatorVars>>

\* SubagentManager.executeAll returns or rejects.  The results it returns are only
\* counted and logged: tasks that failed, or that it has no result for, are treated
\* like the others from here on.
Execute ==
  /\ stage = "execute"
  /\ \/ stage' = (IF improveSelf THEN "test" ELSE "report") /\ UNCHANGED ledgerVars
     \/ Throws
  /\ UNCHANGED <<improveSelf, at, sandboxResult, dirty, commits, exit, decomposerVars, consolidatorVars>>

-----------------------------------------------------------------------------
(***************************************************************************)
(* runImproveSelf.                                                         *)
(***************************************************************************)

\* The tests of one task run in the sandbox, which may write to the workspace.
RunTests ==
  /\ stage = "test" /\ at <= Len(reply)
  /\ \E o \in Outcomes :
       /\ dirty' \in {dirty, dirty \/ o.started}
       /\ \/ /\ o.code # "throws"
             /\ sandboxResult' = o
             /\ LogTo("sandbox_test_run", "commit")
          \/ o.code = "throws" /\ Throws /\ UNCHANGED sandboxResult
  /\ UNCHANGED <<improveSelf, at, commits, exit, decomposerVars, consolidatorVars>>

TestsPassed == sandboxResult.code = "green"

\* gitCommitTask stages every tracked change and commits it; the files of an open
\* conflict are staged as they are, which ends the conflict.
CommitTask ==
  /\ stage = "commit" /\ TestsPassed /\ dirty
  /\ dirty' = FALSE
  /\ merging' = FALSE
  /\ commits' = commits \cup {sandboxResult.tests}
  /\ sandboxResult' = NoTests
  /\ at' = at + 1
  /\ LogTo("improve_self_task_completed", "test")
  /\ UNCHANGED <<improveSelf, exit, decomposerVars, consolidatorState>>

\* No commit when the tests failed, nothing is staged, git refuses or is killed.  For
\* a task whose tests passed the mesh, or a git that cannot be started, may throw
\* instead, behind `git add -u` too.
NoCommit ==
  /\ stage = "commit"
  /\ \/ LogTo("improve_self_task_completed", "test")
     \/ TestsPassed /\ Throws
  /\ at' = at + 1
  /\ sandboxResult' = NoTests
  /\ merging' \in {merging, merging /\ ~TestsPassed}
  /\ UNCHANGED <<improveSelf, dirty, commits, exit, decomposerVars, consolidatorState>>

ImproveSelfDone ==
  /\ stage = "test" /\ at > Len(reply)
  /\ stage' = "report"
  /\ UNCHANGED <<improveSelf, at, sandboxResult, dirty, commits, exit,
                 decomposerVars, consolidatorVars, ledgerVars>>

-----------------------------------------------------------------------------
Report ==
  /\ stage = "report"
  /\ LogTo("auto_command_completed", "consolidate")
  /\ cpc' = "start"
  /\ UNCHANGED <<improveSelf, at, sandboxResult, dirty, commits, exit, decomposerVars,
                 dirs, successful, failed, todo, merged, allMerged, merging, signalled,
                 head, exitCode>>

Consolidate ==
  /\ stage = "consolidate"
  /\ ConsolidatorStep
  /\ stage' = IF cpc' = "threw" THEN "catch" ELSE stage
  /\ UNCHANGED <<improveSelf, at, sandboxResult, dirty, commits, exit, decomposerVars>>

\* The exit code of the consolidation is logged and otherwise ignored.
Consolidated ==
  /\ stage = "consolidate" /\ cpc = "done"
  /\ LogTo("consolidation_completed", "lint")
  /\ UNCHANGED <<improveSelf, at, sandboxResult, dirty, commits, exit,
                 decomposerVars, consolidatorVars>>

\* `biome check --fix` rewrites files of the working tree.
BiomeRewrites == dirty' \in {dirty, TRUE}

\* A binary that cannot be started throws.
runBiomeLint ==
  /\ stage = "lint"
  /\ \/ BiomeRewrites /\ LogTo("lint_applied", "pr")
     \/ Throws /\ UNCHANGED dirty
  /\ UNCHANGED <<improveSelf, at, sandboxResult, commits, exit, decomposerVars, consolidatorVars>>

\* createGitHubPullRequest: --no-pr is declared with the default false, so enablePr is
\* false with and without it, and nothing behind the first return is reached.
createGitHubPullRequest ==
  /\ stage = "pr"
  /\ LogTo("github_pr_skipped", "summary")
  /\ UNCHANGED <<improveSelf, at, sandboxResult, dirty, commits, exit,
                 decomposerVars, consolidatorVars>>

\* SummaryGenerator opens the ledger file of the run with an object of its own
\* and logs the summary it has written ...
GenerateSummary ==
  /\ stage = "summary"
  /\ \/ LoggedByOther("summary_generated") /\ stage' = "finish"
     \/ Throws
  /\ UNCHANGED <<improveSelf, at, sandboxResult, dirty, commits, exit,
                 decomposerVars, consolidatorVars>>

\* ... and the command logs it again.
Finish ==
  /\ stage = "finish"
  /\ \/ Logged("summary_generated") /\ stage' = "end" /\ exit' = 0
     \/ LogRejected /\ stage' = "catch" /\ UNCHANGED exit
  /\ UNCHANGED <<improveSelf, at, sandboxResult, dirty, commits,
                 decomposerVars, consolidatorVars>>

\* Mutant: the failure is logged, and the process ends as if nothing happened.
CatchQuietly ==
  /\ stage = "catch"
  /\ Logged("auto_command_failed") \/ LogRejected
  /\ stage' = "end"
  /\ exit' = 0
  /\ UNCHANGED <<improveSelf, at, sandboxResult, dirty, commits,
                 decomposerVars, consolidatorVars>>

\* The catch block; when its entry is rejected too the rejection ends the
\* process, with an exit code that is not zero either.
Catch ==
  /\ stage = "catch"
  /\ Logged("auto_command_failed") \/ LogRejected
  /\ stage' = "end"
  /\ exit' = 1
  /\ UNCHANGED <<improveSelf, at, sandboxResult, dirty, commits,
                 decomposerVars, consolidatorVars>>

Next ==
  \/ Load \/ Decompose \/ DecompositionFailed \/ DecompositionCompleted \/ Execute
  \/ RunTests \/ CommitTask \/ NoCommit \/ ImproveSelfDone \/ Report \/ Consolidate \/ Consolidated
  \/ runBiomeLint \/ createGitHubPullRequest
  \/ GenerateSummary \/ Finish \/ Catch

\* The action waits for a process that nothing ends, or for the indexer.  exec has
\* timeouts, but they call a kill that spawn does not return, and the sandbox binary
\* ignores its own; git and biome have none.  A request to the indexer may be left
\* without an answer (IndexerDaemon).
Waiting ==
  \/ stage = "test" /\ at <= Len(reply)
  \/ stage = "commit" /\ TestsPassed
  \/ stage = "consolidate" /\ AwaitsGit
  \/ stage = "lint"
  \/ stage = "decompose" /\ dpc \in {"memory", "search", "inject"}

\* Every other call the action awaits settles.
Spec == Init /\ [][Next]_vars /\ WF_vars(~Waiting /\ Next)

-----------------------------------------------------------------------------
(***************************************************************************)
(* Properties.                                                             *)
(***************************************************************************)
Lines(type) == {i \in DOMAIN lines : lines[i].type = type}

\* The process ends with 0 only when the last line of the ledger is the summary and
\* no failure was logged; auto_command_failed is the last line of its run, and the
\* process then ends with 1, also when the run had been reported as completed before.
ExitTellsOutcome ==
  /\ exit = 0 => /\ Lines("auto_command_failed") = {}
                 /\ Len(lines) \in Lines("summary_generated")
  /\ \A i \in Lines("auto_command_failed") : i = Len(lines) /\ exit = 1
  /\ stage = "end" => exit # 9

\* runImproveSelf commits on the exit code exec reports.  Whatever the platform, the
\* sandbox, its output and the Isolator's ledger do, the tests had then been started,
\* and had passed or were cut off by a signal (spawn.ts:91); tests that failed, or
\* were refused or never started, lead to no commit.  That the task was completed
\* (auto.ts:291) or that the mesh did not prefer agent B (auto.ts:381) does not follow.
CommitsBackedByTests == commits \subseteq {"passed", "killed"}

\* docs/PROJECT.md: the file is a hash chain, each entry carrying the hash of the
\* one before it.
RunLedgerIsAChain == \A i \in DOMAIN lines : lines[i].prev = i - 1

\* The command ends, or it waits for good for a process or the indexer; no other
\* failure, conflict, plan or rejected append keeps it.
CommandEnds == <>(stage = "end") \/ <>[]Waiting
=============================================================================
