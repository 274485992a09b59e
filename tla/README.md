# TLA+ models of Apohara

Apohara takes a request in natural language, lets a planner model split it into
tasks, runs the tasks in parallel on agents behind several LLM providers (each
in a git worktree of its own), has the important results checked by a second
agent, and consolidates them. Everything it does is recorded in hash-chained
JSONL ledgers.

This directory models the parts of that program whose correctness depends on
the order of things: what overlaps at the `await`s of one Node process, what a
failed write or a crash leaves behind, and what timers do to state that has
changed since they were set. TLC checks the models on small instances; TLAPS
proves every safety property of the passing runs for all values of the constants.

Paths below are relative to the repository root.

## 1. Inventory

| Component | State | Operations | Talks to | What is hard |
|---|---|---|---|---|
| Executor, `src/core/subagent-manager.ts` | `completed`, `pending`, `activePromises`, `results`, retry counters | `executeAll`, `executeTask` | worktree pool, agent router, provider router, its event file | a pool of promises around `Promise.race`, decisions used several awaits later, rejections |
| Worktree pool, `src/core/worktree-manager.ts` | the pool; lock files and directories | `acquire`, `release`; create, adopt, prune | executor, git | exclusive use; two runs on one disk |
| Event ledger, `src/core/ledger.ts` | `lastHash`, `writeQueue`, the file | `log`, `init`, `verify` | everybody | overlapping calls, failed and torn appends, restart |
| State store, `src/core/state.ts` | `this.state`, `state.json`, `state.json.tmp` | `load`, `update` | scheduler, consolidator | atomic replacement, overlap, crashes |
| Provider router, `src/providers/router.ts` | a health record per provider, timers | `completion`, `fallback`, `recordProviderFailure` | provider APIs, its event file | requests share the records; timers outlive what they were set for |
| Verification mesh, `src/core/verification-mesh.ts`, with `jcr-safety-gate.ts` | session costs, circuit breaker | `execute`, `runArbiter` | router, indexer, ledger | a budget tested before and charged after long waits; a race with a timeout |
| Agent router, `src/core/agent-router.ts`, with capability manifest and statistics | statistics in memory and in a file, their write queue | `routeTask`, `routeTaskWithFallback` | provider router, ledger | the outcome is recorded inside the `try` of the call; overlapping loads and flushes |
| Pipeline, `src/commands/auto.ts`, with decomposer, consolidator, summary | the plan, branches, commits, the ledger of the run | `auto`, `runImproveSelf`, `decompose`, `Consolidator.run` | executor, sandbox, git, indexer | failures between its phases; two ledger objects on one file; conflicts and killed processes that count as success |
| Scheduler, `src/core/scheduler.ts` | `activeTasks`, lanes, statuses in the state store | `scheduleTask`, `completeTask`, `executeAll` | state store, ledger | completion races, failed dependencies |
| Isolation, `src/core/isolation.ts`, `isolation-engine/` | worktrees on disk | create, destroy | git | an answer lost after git has done its work |
| Sandbox, `src/core/sandbox.ts`, `crates/apohara-sandbox` | a child process | run with a permission tier | Linux namespaces and seccomp | order of set-up, fallback |
| Indexer client, `src/core/indexer-client.ts` | connection state, pending requests, timers | `connect`, `sendRequest`, `disconnect` | the daemon's socket | start races, reconnection, requests in flight when a connection is lost |
| Indexer daemon, `crates/apohara-indexer` | socket file, database, vector index, id counter | index, search, memories | its clients | two daemons, two locks, two transactions for one answer, crashes |
| OAuth, `src/lib/oauth*` | the token | login, refresh | providers | refresh against expiry |
| Dashboards, `packages/tui`, `packages/desktop` | read position in a ledger | watch, stream | ledger files | reading a file that grows |

The executor calls the agent router and then `ProviderRouter.completion` for
every attempt; the mesh calls the router for each of its agents. All of them
append to event files, and in all of them a rejected append surfaces at an
`await`. That is why the models have a constant (`LogMayFail`, `MayFail`,
`MayReject`, `MaxFault`) that lets such writes reject.

What would make each component correct:

* executor: at most `maxConcurrent` agents, one worktree each and never a shared
  one, dependencies first, one result per task, no agent left behind, an end;
* ledger: an unbroken chain, every acknowledged event readable, in the order of
  the calls; `verify` accepts exactly the honest files;
* state store: a file that always parses and holds every acknowledged update;
* router: no provider out of use for ever, no request sent to a provider known
  to be unavailable while another is available, every request settles;
* mesh: verification stays within its budget, the arbiter never judges from
  compressed context, a failing second agent costs nothing but its opinion;
* agent router: one outcome per routed call, statistics that agree with the
  ledgers, every provider tried before a call gives up;
* pipeline: only acyclic plans are run, only green changes are committed, the exit
  codes tell what happened, and the command ends;
* scheduler: dependencies first, a status that fits what is running, lanes that
  exist, an end;
* indexer: what was acknowledged is durable, a search names the function it
  matched, the socket file leads to the daemon that listens, every request settles.

`PROJECT.json` lists all components, including those not modelled, and the
hazards with the line where each one bites.

## 2. Modules

| Module | Models | Runs |
|---|---|---|
| `SubagentManager` | `executeAll`, `executeTask`, the in-process worktree pool | `subagents` |
| `LedgerHash` | events, hashes, kinds of line | used by the next two |
| `EventLedger` | `init`, `log`, restart | `ledger` |
| `LedgerVerify` | `verify` against a definition of honest files | `ledger_verify` |
| `StateMachine` | `load`, `update` on inodes | `state` |
| `DurableState` | what `StateMachine` promises: memory, and a file replaced at once | refined by `StateMachine` |
| `ProviderCalls` | for each provider and CLI driver, what its call throws | used by `ProviderRouter` |
| `ProviderRouter` | `completion`, health records, cooldown timers | `router` |
| `VerificationMesh` | `execute`, `runArbiter`, the JCR gate | `mesh` |
| `AgentRouter` | `routeTask`, `routeTaskWithFallback`, the capability statistics and their file | `agent_router` |
| `TaskDecomposer` | `decompose`: reply, validation, cycle search, context | part of `AutoPipeline` |
| `Consolidator` | `run`: lanes, merges, branch, exit code | part of `AutoPipeline` |
| `Sandbox` | the exit code `Isolator.exec` makes of an execution, and what really became of it | used by `AutoPipeline` |
| `RunLedger` | the ledger file of one run and its two writers | used by `Consolidator`, `AutoPipeline` |
| `AutoPipeline` | the `auto` command, composing the four above with the executor's promise | `pipeline`, `pipeline_ledger` |
| `ParallelScheduler` | `initialize`, `executeAll`, `completeTask`, `shutdown`, the isolation engine | `scheduler` |
| `IndexerDaemon` | connections of clients; the life of daemon processes | `indexer_daemon` |
| `IndexerStore` | indexing, memories and searches inside a daemon | `indexer_store` |
| `MC*` | constants for TLC | |
| `SubagentManagerProofs` | theorems about `SubagentManager` and `AgentRouter` | |
| `EventLedgerProofs` | theorems about `EventLedger` and `LedgerVerify` | |
| `IndexerProofs` | theorems about `IndexerStore` and `IndexerDaemon` | |
| `AutoPipelineProofs` | theorems about `AutoPipeline` with `TaskDecomposer` and `Consolidator` | |
| other `*Proofs` | theorems about the module they extend | |

The TypeScript part is single threaded: an action is the code between two
`await`s, and control changes only there. The daemon is multi-threaded: there an
action is what happens under one lock or in one transaction. Definitions keep the
names of the source. Operators marked "Mutant" are plausible mistakes in the
operator that follows them; no specification uses them. They document what each
property can tell apart.

### SubagentManager

`main` is the position of `executeAll`: `dispatch` (the awaits that precede a
launch: two event appends and `routeTask`), `launch` (the await of `acquire`),
`race`, and the three ends: `done`, `threw`, and `exited` for an
unhandled rejection. `agent[i]` is the position of task i's `executeTask` and of
the `then` and `finally` callbacks hung on it. `ready` is `readyTasks`, which the
code computes once per round of the outer loop. `active` is `activePromises`,
keyed by identifier as in the code, so that a repeated identifier overwrites an
entry. `racing`, `raced` and `raceWon` keep what `Promise.race` has attached its
handlers to: a rejection nobody listens to ends the process, and one that only an
old race listens to is dropped. Results come in the order of completion, not in the
order of the input that the comment at line 417 names; no property speaks of their
order. The abort timer fires into a controller that no
call takes notice of, and so it does in the model.

### EventLedger, LedgerVerify, LedgerHash

A hash is the sequence of the events it commits to: SHA-256 is taken to be free
of collisions. `init` is the progress of `initPromise` (stat, then genesis or
`loadLastHash`), `queue` the calls chained on `writeQueue`, `poisoned` whether
that promise has rejected, after which every later call rejects too. An append
may fail whole, leave part of its line behind, or be cut short by `Crash`;
`tailOpen` says that the last line lacks its newline, and the next append is then
glued to it. `spoilt` records that a restart has found such a line.

`LedgerVerify` runs the loop of `verify` line by line on files that were edited
up to `MaxEdits` times, or that cannot be read, and compares its answer with
`Honest`, which mentions no loop. `HonestUpTo` says how far the hashed lines of a
file are a chain; the line `verify` reports must be the first at which it fails.

### StateMachine, DurableState

A state is the set of updates applied to it. `writeFile` is its open (which
creates or truncates) and its write, both through the inode; `rename` moves the
name. A crash loses the memory and the open descriptors. `update` has no lock and
does not load, so calls overlap freely here, and a process may update what it has
never read, as the scheduler's does. Two history variables record when that
happened: `overlapped` (a call was made while an update was in flight) and `blind`
(a restarted process updated without a `load`). The properties say what still holds
afterwards. The refinement maps the abstract `disk` to what `load` would read.

### ProviderRouter, ProviderCalls

An error is the set of words in its message that `classifyError` and
`isRetryableError` look for, since nothing else of it decides anything.
`ProviderCalls` has one operator per `callX` method of the router and one for the
CLI drivers; each maps the circumstances of a call (key, answer of the server,
error body, whether the event file can be written) to an answer or to such a set.
`Errors` of `ProviderRouter` pairs every provider with all its call can throw.
Worth knowing: an error body that is quoted (groq, kiro-ai, mistral, openai)
takes part in the classification; a rejected `api_call_failed` entry replaces the
error it describes; a provider without a key (deepseek, gemini) is asked all the
same. `callOpenCode`'s simulated failure may strike any call here, the first one
in the code.

`remaining` is the time to `cooldownExpiresAt` and a timer has time `left`; `Tick`
takes one unit from all of them. `cooldownLog` is the await between setting
`isOnCooldown` and calling `setTimeout`. Providers in `Local` (the local model and
the CLI drivers) have no health record.

### VerificationMesh

Costs are integers, as the cost table is once scaled. `execute` reads the breaker
before agent A runs, `Charge` adds up and fires it after the arbiter. A policy
with `enabled: false` acts as a task that does not qualify. The budget
`max_extra_cost_pct` is one for the session: the default and the only caller that
gives one agree (15). The gate's risks are in hundredths. An execute that rejects
records why: `rejectedByA`, `rejectedByB` or `rejectedByLog`.

### AgentRouter

Overlapping calls share one `CapabilityStats`: `map`, `loaded`, and `queue`, the
flushes chained on its write queue, each of which truncates (`Torn`) and then
writes the file. `entries` are the `provider_outcome` entries a call has made in
its own ledger. A write may fail; the queue then rejects for good. Thompson
sampling is a choice of any provider of the pool. `stale` marks that a first read
which began before the store was loaded has replaced newer counts. `Without` is the
`filter` that takes the chosen provider out of the role's fallback order; the
orders of `ROLE_FALLBACK_ORDER` name no provider twice, which is an assumption.

### AutoPipeline, TaskDecomposer, Consolidator, Sandbox, RunLedger

`stage` is the position of the command. `TaskDecomposer` keeps the open calls of
`dfs` as `frames`, so the search is checked step by step against the definition of
an acyclic plan. Its context injection is a loop with an await per task
(`InjectTask`), entered when the dynamic import of the indexer client has settled,
which it may do at any step (`ClientImported`).

The executor returns or rejects. Which results it returns only shows in a log entry:
a task that failed, or that has no result (`SubagentManager` shows when), is treated
like the others from there on.

`Consolidator` works on the lanes that count as successful in some content of
`state.json`, or throws when that has no tasks. A git process ends with 0, with an
error, by a signal (which `spawn` reports as 0; `signalled` records it) or cannot be
started, which throws. A conflict may be open from an earlier run, from the pull
whose result is ignored, or from a merge of this run, and every later merge is then
refused. What git makes of its arguments is external: that `git merge` takes the path
of a worktree for the name of a commit is left open here, although an actual git
answers "not something we can merge".

`Sandbox` is pure: which exit code is reported for each way an execution can go, and
what became of the command in fact (`Verdict`). The executions are those the binary
in `crates/apohara-sandbox` and the operating system can produce together
(`ExitCodesAgree`). `RunLedger` has the command's ledger object and the one
`SummaryGenerator` opens on the same file; a hash is the number of a line.

The pull request is never made: commander gives `--no-pr` the default `false`, so
`options.pr` is false with and without it (see Findings), and the only step left of
`createGitHubPullRequest` is its first return.

### ParallelScheduler

`main` is the position of the caller of `initialize`, `executeAll` and `shutdown`,
`comp` that of the `completeTask` call of a lane. `executeAll` may be called again,
after it rejected or after a shutdown, with tasks the state machine knows; such a
task goes through the branch for an existing task, which leaves the status of the run
alone, and `again` records it. `unseen` are lanes that git has created while the
engine's answer was lost; the repeated call then fails because the branch exists. A
repository may hold branches and worktrees of an earlier run.

### IndexerDaemon

Clients and daemons share the socket file and the lock redb holds on the database
file. (The database is one per home directory, `db.rs:126`, the socket one per
working directory; the model has one of each.) A request, or a reconnect timer, that
calls `connect()` has a `dial` and a socket of its own (`link`, `far`), while `sock`
and `resolver` are the single `this.socket` and `connectResolver` of the client. The
event `close` of a socket comes some time after its error or `destroy()` and acts on
whatever the state of the client is by then, so two dials may overlap; `stranded`
records the requests whose resolver is overwritten or dropped. An attempt of a
reconnect timer that rejects is an unhandled rejection and ends the process
(`ProcessEnds`). A daemon opens the database, binds (removing what is at the path),
listens, goes idle, removes the socket file and only then exits; `Kill` ends it
anywhere.

### IndexerStore

Requests run on threads of their own. `indexLock` is the mutex around the vector
index, `writer` redb's single write transaction. A request takes an id, inserts
the vector, commits the node and saves the graph; `acked` is what a client was
told. `Crash` loses the memory, `Restart` rebuilds it from the tables. `orphaned`
are ids that a crash has left in the saved graph without a node.

## 3. What the runs check

| Run | Instance | Distinct states | Shows |
|---|---|---|---|
| `subagents` | 3 tasks, 7 plans, 2 slots, 1 retry, event appends may reject | 513,442 | `CapRespected`, `NoAgentWithoutWorktree`, `DependenciesReported`, `EveryTaskReportedOnce`, `Terminates`, `SlotsReturned` |
| `ledger` | 1 object, 5 events, 2 crashes, failing and torn appends, with and without unhashed old lines | 16,899 | `ChainIntact`, `AckedInOrder`, `EveryCallSettles` |
| `ledger_verify` | files of up to 4 lines, 2 edits, unreadable files | 6,423 | `AcceptsExactlyHonest` |
| `state` | 4 updates, overlapping or not, with and without `load`, 2 crashes, failing writes | 1,060,782 | `SpoiltOnlyByOverlap`, `AckedDurable`, `ImplementsDurableState` |
| `router` | anthropic-api, groq, deepseek-v4 and a CLI driver, 2 requests, all their errors, failing log writes | 318,925 | `ExhaustedMeansAlone`, `CooldownEnds`, `EveryRequestSettles` |
| `mesh` | 3 executes, 2 at a time, 4 inputs, costs 1 and 4, budget 50 % | 171,179 | `OvershootBounded`, `AnswerOfASurvives` |
| `agent_router` | 2 calls, 4 providers (one without a token), 1 failing write | 115,386 | `OneSuccessEntry`, `ExhaustedAfterAll`, `StatsAgreeWithLedgers`, `EveryCallEnds`, types |
| `pipeline` | 7 replies, 4 contents of `state.json`, 2 lanes, 1 failing append, every outcome of sandbox, git and Biome | 648,734 | `AcceptsOnlyDags`, `ContextForAllOrNone`, `ExitCodeMatchesRepository`, `ExitTellsOutcome`, `CommitsBackedByTests`, `CommandEnds`, types |
| `pipeline_ledger` V | the same without failing appends | | `RunLedgerIsAChain` fails in every run that succeeds |
| `scheduler` | 3 tasks, 3 plans, 2 lanes, 1 retry, 2 calls of `initialize`, any number of `executeAll`, rejected writes | 1,484,005 | `DependenciesFirst`, `IdleMeansNothingInProgress`, `LanesMatchDisk`, `ExecuteAllEnds` |
| `indexer_daemon` | 1 client, 2 requests, 1 reconnect timer at a time, 2 reconnects, 2 daemons, 2 kills | 94,167 | `SocketFileTruthful`, `EveryRequestSettles` |
| `indexer_store` | 2 connections, 3 files, 2 functions, 1 memory, 2 ids, 2 crashes, failing commits | 169,287 | `AckedDurable`, `SearchNamesItsFunction`, `EveryRequestAnswered` |

V: the run must find a counterexample, see Findings. Run one with
`tlc -config SubagentManager.cfg MCSubagentManager`.

### Why the bounds are enough

* Three tasks on two slots is the least that fills the pool, leaves a task waiting
  and lets a completion fall into a dispatch. The seven plans are the shapes that
  differ in which tasks become ready when: none dependent, chain, fork, join, a
  chain listed backwards, a cycle behind a runnable task, a self-dependency.
* Five events are a genesis and four calls: appends on either side of a restart,
  with one more in the queue. Two crashes let a restart itself crash.
* Four updates with two crashes let an update follow a failed one and a crash
  follow that, and let two updates overlap while a third has created the file.
* Two requests are enough for one to change a provider's record while the other
  is in any of its awaits. Three providers give `fallback` a choice, and they are
  one of each kind: checked key and logged error, quoted error body, neither. All
  cooldowns last one tick; a timer of an earlier cooldown still meets a later one,
  because cooldowns begin at different ticks. Two failures are the threshold for
  network and model errors.
* Two overlapping executes and a third that starts after the breaker has fired;
  costs 1 and 4 with a budget of 50 % put a session on either side of it, and
  exactly on it. (With the 15 % of the code the first verified task of so short a
  session always fires the breaker.)
* Two routed calls let one load or flush the statistics between any two steps of
  the other; four providers leave a fallback after one has failed and one has no
  token; one failing write is enough to make a queue reject for good.
* The seven replies are garbage, no tasks, an acyclic plan listed backwards, a cycle
  behind a harmless task, a self-dependency, an unknown dependency and a repeated
  identifier; two lanes let a conflict be followed by another merge; the four
  stored states make a lane successful, failed, or neither; one failing
  append poisons the ledger of the run for the rest of it.
* Two lanes and three tasks keep a task waiting behind a failed dependency; a
  second `initialize` finds what the first has left; repeated calls of `executeAll`
  reach tasks in each status.
* Two requests and a timer are three dials, which is the least for one to be open
  while the late `close` of another lets a third begin; two daemons let one start
  while another is going down; two kills leave two stale socket files. One client is
  enough for the requests, whose state is their client's own; that clients share the
  socket file is covered by the theorem, for any number of them.
* With two ids an id can be handed out again after a crash; two crashes let it
  happen after a restart.

No run uses a state constraint. The `state` run uses symmetry of the updates, which
are interchangeable; it checks safety only. `CHECK_DEADLOCK FALSE` is set where a
model ends when all its calls have (all but `indexer_store`): that the calls do
end is stated as liveness instead.

### Fairness

All fairness is weak, and on steps of calls already made; nothing obliges a
caller to make a call, a crash to happen, or a provider to answer well.

* `SubagentManager`: each `executeTask` and `executeAll` goes on, because file
  operations end, back-off sleeps are timers, and provider calls carry
  `AbortSignal.timeout` or, for CLI drivers, a timer that kills the
  process. The task's own abort timer has no fairness.
* `EventLedger`: the file operations of a live process end.
* `ProviderRouter`: as above; time passes, and a timer that is due fires.
* `VerificationMesh`: calls of the router settle, which is
  `EveryRequestSettles` of `ProviderRouter`; agent B has its timeout.
* `AgentRouter`: router calls settle, file operations end.
* `AutoPipeline`: every step but those of `Waiting`. Nothing ends a child process
  that hangs: the timeouts of `sandbox.ts` call a `kill` that `spawn` does not return,
  the sandbox binary ignores its own, git and Biome have none; and a request to the
  indexer may stay unanswered. `CommandEnds` says that the command ends or waits for
  good in one of those places. It rests on the executor's `Terminates`.
* `ParallelScheduler`: timers fire, promises settle, and whoever runs a task
  reports it. `ExecuteAllEnds` names the causes that keep `executeAll` waiting all
  the same (`Stuck`).
* `IndexerDaemon`: timers fire, callbacks run, daemon processes are scheduled;
  going idle, kills and answers have no fairness.
* `IndexerStore`: a task whose locks are free is polled; the daemon is started
  again.

### Findings

`pipeline_ledger`, `src/commands/auto.ts:263`: `SummaryGenerator` opens a second
`EventLedger` on the file of the run and appends `summary_generated`. The command
then logs with the `lastHash` its own object had before, so the last entry of every
successful run does not continue the chain that `docs/PROJECT.md:176` promises and
`replay --verify` requires.

Other places where the code does less than a comment says. The properties above
except them, in words, at their definition, and `PROJECT.json` has each with the
hazard it belongs to:

* `subagent-manager.ts:498`: a failure event that cannot be appended while
  `executeAll` is dispatching loses the result of the task without an error.
* `ledger.ts:107`: after a torn append a restart begins at the genesis value, and the
  next event is glued to the partial line.
* `state.ts:75`: overlapping updates share one temporary file; a `rename` can publish
  what another update has just truncated, although the comment at line 73 says this
  never happens. While all updates so far were acknowledged the file is whole even so.
* `state.ts:65`: `update` does not load. A restarted process whose object never called
  `load` (the scheduler's) replaces the file by a document made from the initial state.
* `router.ts:528`: a cooldown's timer is never cancelled and ends a later cooldown.
* `router.ts:916`: a CLI driver that times out or is not installed is not "upgraded to
  a provider switch": its message has none of the words of `isRetryableError`, and
  CLI drivers have no cooldown.
* `router.ts:1433`, `:1511`, `:1551`: an answer of the older Kimi, Qwen and MiniMax
  models names the newer one as its provider.
* `verification-mesh.ts:189`: a rejection of agent B's call rejects the whole
  `execute`; only a null answer and the timeout degrade to agent A.
* `agent-router.ts:389`: a failing write after a success loses the answer; if it is
  the ledger's, the statistics count the call as a success and as a failure. The
  outcome is credited to the provider that was asked, also when `completion` has
  answered through its own fallback.
* `spawn.ts:91`: a process ended by a signal counts as exit code 0: a test run that
  was killed counts as passed, a merge or checkout that was killed as made.
* `sandbox.ts:161`, `:276`: the timeouts kill nothing (see Fairness).
* `auto.ts:291`, `:381`: commits are made for every task whose tests are green, also
  one that did not complete, and also when the mesh selects agent B.
* `consolidator.ts:159`: a lane counts as successful when its number occurs anywhere
  in the id of a completed task, and a lane that matches nothing while no task failed
  is not looked at, so exit code 0 does not mean that all worktrees succeeded
  (line 371). The state it reads is one the `auto` command does not
  write, and the command ignores its exit code.
* `scheduler.ts:372`: a task whose dependency has failed keeps `executeAll` waiting
  for good.
* `scheduler.ts:151`: scheduling a task that already exists puts it back in progress,
  under the tasks that depend on it, and does not set the run to running.
* `indexer-client.ts:362`: a late `close` lets two dials overlap; the second
  overwrites `connectResolver`, and the first request never settles.
* `server.rs:207`: a killed daemon leaves a socket file that no client replaces.
* `auto.ts:32`: `--no-pr` is declared with the default `false`, so the pull request is
  skipped in every run; `docs/PROJECT.md:173` has it opened unless the option is set,
  and `tests/e2e-auto.test.ts:68` has `pr` default to true.

## 4. What is proved

All proofs are for arbitrary constants, under the named `ASSUME` of each module and
the hypotheses below. The assumptions give types to the constants; beyond that,
fallback orders name no provider twice (`ProviderRouter`, `AgentRouter`), some
provider needs no token (`AgentRouter`), lanes are numbers and stored states finite
(`Consolidator`), and a run routes finitely many calls (`AgentRouter`).

| Theorem | States |
|---|---|
| `SubagentManagerProofs!TypeCorrect` | types; at most `maxRetries + 1` attempts |
| `…!WorktreesExclusive` | `SlotsExclusive`, for any plan |
| `…!DependencyOrder` | `DependenciesReported` |
| `…!ConcurrencyCap` | `CapRespected` |
| `…!NoOrphanAgents` | `NoOrphans` |
| `…!EveryAgentHasAWorktree` | `NoAgentWithoutWorktree` |
| `…!ReportedOnce` | `EveryTaskReportedOnce` |
| `…!RouteTypeCorrect` | types of routed calls and of the statistics |
| `…!OneSuccess` | `OneSuccessEntry` |
| `…!ExhaustedLast` | `ExhaustedAfterAll` |
| `…!StatsAgree` | `StatsAgreeWithLedgers` |
| `EventLedgerProofs!TypeCorrect` | types, for any number of ledger objects |
| `…!ChainUnbroken` | `ChainIntact`, for one object per file |
| `…!AcknowledgedInOrder` | `AckedInOrder`, likewise |
| `…!VerifyExact` | `AcceptsExactlyHonest`, for files of any length and any number of edits |
| `StateMachineProofs!TypeCorrect` | types, for any overlap |
| `…!SpoiltByOverlap` | `SpoiltOnlyByOverlap`, for any overlap |
| `…!Durable` | `AckedDurable` |
| `…!Refinement` | `ImplementsDurableState` |
| `ProviderRouterProofs!TypeCorrect` | types; at most two attempts per request |
| `…!CooldownsEnd` | `CooldownHasTimer` |
| `…!FallbackHealthy` | `FallbackAvoidsCooldown` |
| `…!ExhaustedAlone` | `ExhaustedMeansAlone` |
| `VerificationMeshProofs!TypeCorrect` | types |
| `…!BudgetKept` | `EnabledMeansWithinBudget` |
| `…!OvershootLimited` | `OvershootBounded` |
| `…!ArbiterAlwaysDense` | `ArbiterDense` |
| `AutoPipelineProofs!TypeCorrect` | types of the command, decomposer and consolidator |
| `…!AcceptsDags` | `AcceptsOnlyDags` |
| `…!ContextAllOrNone` | `ContextForAllOrNone` |
| `…!ExitCodeHonest` | `ExitCodeMatchesRepository` |
| `…!ExitAgrees` | `ExitTellsOutcome` |
| `…!CommitsBacked` | `CommitsBackedByTests`, for every execution of the sandbox |
| `ParallelSchedulerProofs!TypeCorrect` | types |
| `…!DependencyOrder` | `DependenciesFirst`, for any plan and any number of calls |
| `…!IdleIsIdle` | `IdleMeansNothingInProgress`, likewise |
| `…!LanesOnDisk` | `LanesMatchDisk` |
| `IndexerProofs!TypeCorrect` | types of the store |
| `…!AcknowledgedStays` | `AckedDurable` |
| `…!SearchNamesRight` | `SearchNamesItsFunction` |
| `…!DaemonTypeCorrect` | types of clients, daemons and requests |
| `…!SocketFileIsTruthful` | `SocketFileTruthful`, for any number of clients and daemons |

**Executor.** `CapRespected` says nothing of what the code counts, so it is not
inductive. `CapInv` adds that every agent at work owns the `activePromises` entry
of its identifier (so entries count agents), that the map is within the cap, and
that it is strictly below it all the way from the size test to the launch: during
those awaits entries can only disappear. This needs `StartInv` (a task under
dispatch is not started, ready or running), and distinct identifiers; with a
repeated identifier the second `set` replaces an entry and the cap is exceeded by
one, which is why the properties assume `UniqueIds`. `DepInv` carries the
dependencies of ready tasks over the awaits: `completed` only grows, so
`readyTasks` does not go stale. For the worktrees, `HeldInv` says that only agents
at work hold slots, and that every taken slot is held; with `CapInv` a dispatch
finds fewer than `maxConcurrent` of the `maxConcurrent` slots taken. The
order of release and delete in the `finally` callback is what makes the first
half true. For the results, `ResultInv` says that exactly the agents past their
`then` callback have one, `LaunchInv` that a dispatched task has an agent unless its
launch is under way, and `DoneInv` that a normal return leaves nothing ready: the
outer loop breaks with no promise active, so there was room, and the inner loop can
only have ended for want of ready tasks.

**Routed calls.** At each point of `routeTaskWithFallback` a call's entries name
exactly the providers with a token that had their turn, each once (`EntryInv`), and
its order is the chosen provider and those of the role, without repetition
(`OrderInv`, from `OrderOf`: `Without` takes out one element and no other). That
gives `OneSuccessEntry` and `ExhaustedAfterAll`. For the statistics, `SumInv`
balances what the map has against the entries in all ledgers and the calls between
the two: `updateOutcome` moves a call into `Counted`, the ledger entry moves it out,
and a failing write can only leave the map above the sum. `LoadedInv` is needed for
the first read, which must find what the file held at the start; `QueueInv` and
`FileInv` for the file: a flush takes its payload when it begins, and the last one
in the queue has begun after every update.

**Ledger.** `LinkInv` ties `lastHash` to the last complete line of the file and
says that after a torn append the object writes nothing more (`poisoned`) until a
restart. `LoadInv` says a resumed file is not empty. Two objects on one file break
the chain at once, so `OneWriter` is a hypothesis; so is, within `ChainIntact`,
that no restart has found an unterminated line. For `AckedInOrder`, events are
numbered by their calls (`Numbered`), the calls of an object are acknowledged from
the front (`InTurn`), and the complete lines hold the acknowledged events in that
order (`Recorded`).

**Verification of a ledger.** The loop of `verify` is a state machine, so its
correctness for files of any length is an invariant and not an induction over data:
behind line i, the lines so far are honest but for unhashed ones, `prevHash` is the
hash of the last hashed line (`BuildsOn`) and the two flags tell which kinds
occurred (`Passed`); `Judged` says what each result means.

**Router.** `CooldownHasTimer` is inductive together with `RequestShape` (a request
in the awaits of `recordProviderFailure` is at a provider with a health record).
The interesting steps are a success and an old timer between `isOnCooldown = true`
and `setTimeout`: both only clear cooldowns. `FallbackSound` shows that the search
order always has a least element and that it is not on cooldown; hence a request
that is handed its own provider again has no other, which is `ExhaustedMeansAlone`.

**Mesh.** `EnabledMeansWithinBudget` is inductive because the charge and the test
are one step and `sessionCostBase` only grows. For the overshoot, once the breaker
has fired each verifying execute that has not been charged yet holds back its
share of the allowance:

    100 * spent <= pct * base + 100 * (Parallel - |Pending|) * 2 * MaxCost

A charge takes one execute out of `Pending` and adds at most `2 * MaxCost`; no
execute enters `Pending` once the breaker has fired. `ArbiterDense` is the gate's
arithmetic: a judge (60) with full reuse (15) is above the threshold (70).

**State store.** While no calls have overlapped at most one update is in flight
(`Single`), `Files` says that `state.json` is whole and is never the inode being
written, `Writing` what the update has in hand at each of its steps, and `Book` that
the memory of a process which started without a file, or has loaded it, knows all
that is in it, until a blind update. `AckedDurable` and the refinement follow: only
the rename changes what `load` would read, and it does so at once. With two updates
in flight `Files` fails at the second open. That the file is whole nevertheless when
all updates so far were acknowledged is a counting argument (`CInv`): a rename that
succeeds takes away an inode some open created, so there are as many acknowledged
updates as inodes that have left the temporary name (`Count`); if every update that
opened was acknowledged, each has created an inode of its own, nobody else wrote to
it, and its only writer left a document (`Owned`).

**Scheduler.** A task in a lane is known to the state store, except the one just
taken (`Known`); a task that holds two lanes, or whose lane has yet to report it
although it has ended, was scheduled again (`Unique`, `Reported`). So "completed" is
final for a task that was not, which is what `DependenciesFirst` needs, and `idle` is
written only when no lane is active but the one being completed. `LanesMatchDisk` is
inductive as it stands: git refuses a branch that exists.

**Pipeline.** `IInv` has one part per component and one per kind of promise. The
cycle search is a state machine over its stack: `Stack` says that the open calls of
`dfs` are a path without repetition and that what a call has behind it is finished,
`Sorted` that the finished tasks are closed under dependencies and every nonempty
set of them has a member without dependencies in the set. A task joins them when
its call returns (`SortedGrows`); a dependency met on the stack closes a cycle. At
the end all tasks are finished, and the plan is acyclic. A task has its
context once the loop is past it, and the plan leaves the loop only at its end
(`ContextInv`). For the consolidator, unless a git process was killed, the merged
lanes are those successful ones looked at so far that are there, while `allMerged`,
and no conflict is open behind the first of them (`Merges`). `StageInv` ties the stage
of the command to that of the consolidator, `EndInv` relates the last entry and the
exit code. `GreenIsBacked` goes through every execution of the sandbox that `exec`
reports as green; `CommitInv` carries its outcome from the test to the commit.

**Indexer store.** Two requests at work have different ids (`Apart`), all below the
counter, and the counter of a restarted daemon is above every id with a node
(`Counted`). An acknowledged id has a node, so nobody is given it again and its
vector is never overwritten; every later save of the graph still contains it
(`Safe`). `NextIdAbove` is where the maximum of the nodes table enters. For searches,
`NameInv` adds, for ids no crash has orphaned, that saved graph, index and nodes
table may lag behind each other but never contradict (`Consistent`), that an id
handed out has no vector yet (`Fresh`), and that what a search has matched is still
the vector of that id when it looks the name up (`Current`).

**Indexer daemon.** The database lock admits one daemon (`OneDb`), and the socket
file is its own from the bind to the clean-up, or that of a killed one (`Owned`).
Removing the file before the lock is given up is what makes this inductive.

Checked by TLC only: every liveness property (`Terminates`, `SlotsReturned`,
`CooldownEnds`, `ExecuteAllEnds`, `EveryCallSettles`, `AnswerOfASurvives`,
`CommandEnds` and their like), because
fairness is outside the prover's reach; and `RunLedgerIsAChain`, which fails. No
proof uses induction over data: the loops of the code are steps of the models, and
least elements come from the well-founded order of the naturals.

## 5. What is not modelled

* Texts: prompts, log wording, response parsing, summaries, rendering. No property
  depends on them.
* Indexer parsing and embeddings, the scores of the capability manifest, the
  system-call tables of the sandbox: pure functions and data. The sandbox's runner
  is a sequence of system calls whose effect is the kernel's.
* Requests to the indexer daemon that only read, and its dependency graph.
* The on-disk verbs of the worktree manager, which only the tests call.
* Several processes on one ledger, state file or worktree directory, except that
  `EventLedger` is written (and typed) for any number of objects.
* The pull request and the GitHub provider: `auto` never gets there (see Findings).
* OAuth login and refresh, the MCP client's request matching, ContextForge (an
  optional service whose client swallows errors), the dashboards (readers only), and
  the commands around the parts above.

## 6. Plan

1. `AutoPipeline`: an abstract run (plan, results, outcome) refined by it, and the
   refinement proved.
2. The MCP client: requests and answers matched by id, with a process that exits.
3. OAuth tokens: refresh against expiry and against the callback server's timeout.
4. Readers of a growing ledger (terminal and desktop).
